---- MODULE Spec2Model ----
(***************************************************************************)
(* Model of the obsidian-yt-video-summarizer plugin.                       *)
(*                                                                         *)
(*   Spec       the plugin's command layer: summarizeVideo invocations on  *)
(*              one YouTubeSummarizerPlugin instance (src/src/main.ts,     *)
(*              both revisions held in the file).                          *)
(*   SpecFetch  one call of YouTubeService.fetchTranscript or              *)
(*              fetchVideoMetadata (src/src/services/youtube.ts, the       *)
(*              retrying revision and the single-fetch revision), with the *)
(*              network as the environment.                                *)
(*   SpecFetchFair  SpecFetch with the fairness that "every issued request *)
(*              completes and every continuation runs" amounts to.         *)
(*   SpecUrl    the calls up to the id check, over urls of every accepted  *)
(*              form.                                                      *)
(*   SpecTracks fetchTranscript up to its first caption request, over      *)
(*              captionTracks lists and language codes.                    *)
(*   SpecDecode the single-fetch calls over page titles that hold entities.*)
(*   SpecFair   Spec, where every awaited call of summarizeVideo completes.*)
(*   SpecUI     operations of the settings tab and its event handlers.    *)
(*   SpecUse    the operations that change what a summary is made with,    *)
(*              and a summarizeVideo invocation.                           *)
(*   SpecProviders, SpecModels  calls of the SettingsManager's provider    *)
(*              and model operations (src/src/services/settingsManager.ts).*)
(***************************************************************************)
EXTENDS Naturals, Integers, Sequences, FiniteSets, TLC

VARIABLES
  \* ---- command layer (main.ts) ----
  mainImpl,       \* which revision of main.ts: "providers" or "grok"
  settings,       \* the settings fields summarizeVideo reads
  isProcessing,   \* YouTubeSummarizerPlugin.isProcessing
  svpc,           \* per invocation: where summarizeVideo stands
  via,            \* per invocation: "command" or "modal" (who called it)
  fetchCalls,     \* per invocation: fetchTranscript calls it issued
  providerCalls,  \* per invocation: provider / llmService calls it issued
  transcript,     \* per invocation: what fetchTranscript gave back
  notices,        \* per invocation: the Notice texts it showed, in order
  editor,         \* the editor: the invocations whose content was inserted
  \* ---- acquisition (youtube.ts) ----
  impl,           \* which revision of youtube.ts: "retry" or "single"
  op,             \* "fetchTranscript" or "fetchVideoMetadata"
  url,            \* argument url (a sequence of characters)
  langCode,       \* argument langCode (a sequence of characters)
  fpc,            \* where the call stands
  attempt,        \* loop variable of the retry loop (line 82)
  videoPageBody,  \* local videoPageBody
  sortedTracks,   \* extractCaptions: the tracks in the order they are tried
  trackIdx,       \* extractCaptions: loop variable i (line 189), 1-based
  captions,       \* local captions
  lastError,      \* local lastError (its message)
  reqs,           \* every request() issued so far, with its outcome
  result,         \* the value the call resolved with
  thrown,         \* the message of the error the call rejected with
  \* ---- settings (settingsManager.ts, ui/settings.ts, the handlers) ----
  managers,       \* the SettingsManager objects created so far: their
                  \* `settings` field; the last one is plugin.settings
  disk,           \* what the last plugin.saveData wrote
  lastOp,         \* the SettingsManager method called last and how it ended
  providerObj,    \* what this.provider was created from (main.ts 58-62)
  promptObj,      \* the prompt this.promptService was created with (55)
  selpc,          \* where a handleModelSelection call stands
  uiOps           \* the number of operations made in the settings tab

pluginVars ==
  <<mainImpl, settings, isProcessing, svpc, via, fetchCalls, providerCalls,
    transcript, notices, editor>>

fetchVars ==
  <<impl, op, url, langCode, fpc, attempt, videoPageBody, sortedTracks,
    trackIdx, captions, lastError, reqs, result, thrown>>

serviceVars == <<providerObj, promptObj, selpc, uiOps>>

settingsVars == <<managers, disk, lastOp, providerObj, promptObj, selpc, uiOps>>

vars ==
  <<mainImpl, settings, isProcessing, svpc, via, fetchCalls, providerCalls,
    transcript, notices, editor,
    impl, op, url, langCode, fpc, attempt, videoPageBody, sortedTracks,
    trackIdx, captions, lastError, reqs, result, thrown,
    managers, disk, lastOp, providerObj, promptObj, selpc, uiOps>>

\* null / undefined where a string is expected.  A string is a sequence of
\* characters, so this one-element sequence is no string of the program.
Null == <<"null">>

\* null where the command layer's summaries (plain strings) are expected.
None == "none"

(***************************************************************************)
(* Bounds                                                                  *)
(***************************************************************************)
\* Number of summarizeVideo invocations made on the plugin instance.
MaxInvocations == 3

Invocations == 1..MaxInvocations

\* Longest title, in pieces of TitlePieces, drawn where decodeHTML is checked.
MaxPieces == 3

\* Longest captionTracks list drawn where the choice of the track is checked.
MaxTracks == 3

(***************************************************************************)
(* Text.  A JavaScript string is a sequence of one-character strings, so   *)
(* that matching, searching and replacing are computed, not assumed.       *)
(***************************************************************************)

\* s.startsWith(p)
StartsWith(s, p) ==
  /\ Len(p) <= Len(s)
  /\ SubSeq(s, 1, Len(p)) = p

\* s.includes(sub)
Includes(s, sub) ==
  \E k \in 0..(Len(s) - Len(sub)) : SubSeq(s, k + 1, k + Len(sub)) = sub

\* The character class [a-zA-Z0-9_-] of VIDEO_ID_REGEX.
IdChars ==
  {"a","b","c","d","e","f","g","h","i","j","k","l","m","n","o","p","q","r",
   "s","t","u","v","w","x","y","z","A","B","C","D","E","F","G","H","I","J",
   "K","L","M","N","O","P","Q","R","S","T","U","V","W","X","Y","Z","0","1",
   "2","3","4","5","6","7","8","9","_","-"}

\* The length {11} of the id in VIDEO_ID_REGEX.
VideoIdLen == 11

\* VIDEO_ID_REGEX = /(?:v=|\/)([a-zA-Z0-9_-]{11})/ matches at position p of
\* text with its group starting at g.
IdGroupAt(text, g) ==
  /\ g + VideoIdLen - 1 <= Len(text)
  /\ \A k \in g..(g + VideoIdLen - 1) : text[k] \in IdChars

VideoIdMatchAt(text, p) ==
  \/ /\ p + 1 <= Len(text)
     /\ text[p] = "v"
     /\ text[p + 1] = "="
     /\ IdGroupAt(text, p + 2)
  \/ /\ text[p] = "/"
     /\ IdGroupAt(text, p + 1)

\* extractMatch(url, VIDEO_ID_REGEX): group 1 of the leftmost match, or null.
ExtractVideoId(text) ==
  LET hits == {p \in 1..Len(text) : VideoIdMatchAt(text, p)}
  IN  IF hits = {} THEN Null
      ELSE LET p == CHOOSE q \in hits : \A r \in hits : q <= r
               g == IF text[p] = "/" THEN p + 1 ELSE p + 2
           IN  SubSeq(text, g, g + VideoIdLen - 1)

\* text.replace(/pat/g, rep) for a literal pattern.  (v is s, bound once:
\* an operator's argument would be evaluated anew at each of its uses.)
RECURSIVE ReplaceAll(_, _, _)
ReplaceAll(s, pat, rep) ==
  CHOOSE out \in
    { IF Len(v) < Len(pat) THEN v
      ELSE IF SubSeq(v, 1, Len(pat)) = pat
           THEN rep \o ReplaceAll(SubSeq(v, Len(pat) + 1, Len(v)), pat, rep)
           ELSE <<Head(v)>> \o ReplaceAll(Tail(v), pat, rep) : v \in {s} } : TRUE

\* A mutant of decodeHTML: &amp; is replaced last instead of second.
DecodeHTMLAmpLast(text) ==
  LET s1 == ReplaceAll(text, <<"&", "#", "3", "9", ";">>, <<"'">>)
      s2 == ReplaceAll(s1, <<"&", "q", "u", "o", "t", ";">>, <<"\"">>)
      s3 == ReplaceAll(s2, <<"&", "a", "p", "o", "s", ";">>, <<"'">>)
      s4 == ReplaceAll(s3, <<"&", "l", "t", ";">>, <<"<">>)
      s5 == ReplaceAll(s4, <<"&", "g", "t", ";">>, <<">">>)
  IN  ReplaceAll(s5, <<"&", "a", "m", "p", ";">>, <<"&">>)

\* decodeHTML: the six replacements, in the order of the source.
DecodeHTML(text) ==
  LET s1 == ReplaceAll(text, <<"&", "#", "3", "9", ";">>, <<"'">>)
      s2 == ReplaceAll(s1, <<"&", "a", "m", "p", ";">>, <<"&">>)
      s3 == ReplaceAll(s2, <<"&", "q", "u", "o", "t", ";">>, <<"\"">>)
      s4 == ReplaceAll(s3, <<"&", "a", "p", "o", "s", ";">>, <<"'">>)
      s5 == ReplaceAll(s4, <<"&", "l", "t", ";">>, <<"<">>)
  IN  ReplaceAll(s5, <<"&", "g", "t", ";">>, <<">">>)

(***************************************************************************)
(* Inputs of the acquisition: urls, language codes, pages, caption bodies. *)
(***************************************************************************)

\* https://www.youtube.com/watch?v=dQw4w9WgXcQ
UrlWatch ==
  <<"h","t","t","p","s",":","/","/","w","w","w",".","y","o","u","t",
    "u","b","e",".","c","o","m","/","w","a","t","c","h","?","v","=",
    "d","Q","w","4","w","9","W","g","X","c","Q">>

\* https://youtu.be/dQw4w9WgXcQ
UrlShort ==
  <<"h","t","t","p","s",":","/","/","y","o","u","t","u",".","b","e",
    "/","d","Q","w","4","w","9","W","g","X","c","Q">>

\* https://www.youtube.com/
UrlHome ==
  <<"h","t","t","p","s",":","/","/","w","w","w",".","y","o","u","t",
    "u","b","e",".","c","o","m","/">>

\* https://youtu.be/short
UrlNoId ==
  <<"h","t","t","p","s",":","/","/","y","o","u","t","u",".","b","e",
    "/","s","h","o","r","t">>

Urls == {UrlWatch, UrlShort, UrlHome, UrlNoId}

\* The parts the urls are made of where the extraction of the id is checked.
\* https://www.youtube.com/
HostWww ==
  <<"h","t","t","p","s",":","/","/","w","w","w",".","y","o","u","t","u","b",
    "e",".","c","o","m","/">>

\* https://youtu.be/
HostShort ==
  <<"h","t","t","p","s",":","/","/","y","o","u","t","u",".","b","e","/">>

\* The video ids carried: dQw4w9WgXcQ and a-b_c1D2e3F.
VideoIds ==
  { <<"d","Q","w","4","w","9","W","g","X","c","Q">>,
    <<"a","-","b","_","c","1","D","2","e","3","F">> }

\* The paths of the urls that carry the id in the v= parameter: watch,
\* watch_popup, embed/videoseries.
QueryPaths ==
  { <<"w","a","t","c","h">>,
    <<"w","a","t","c","h","_","p","o","p","u","p">>,
    <<"e","m","b","e","d","/","v","i","d","e","o","s","e","r","i","e","s">> }

\* The query parameters before v=: none, t=1&, list=PL1&, feature=share&.
ParamsBefore ==
  { <<>>,
    <<"t","=","1","&">>,
    <<"l","i","s","t","=","P","L","1","&">>,
    <<"f","e","a","t","u","r","e","=","s","h","a","r","e","&">> }

\* What follows the id in the query: nothing, &t=5s.
ParamsAfter ==
  { <<>>,
    <<"&","t","=","5","s">> }

\* The path segments before an id in the path: none, embed/, shorts/, live/,
\* v/.
SegmentsBefore ==
  { <<>>,
    <<"e","m","b","e","d","/">>,
    <<"s","h","o","r","t","s","/">>,
    <<"l","i","v","e","/">>,
    <<"v","/">> }

\* What follows the id in the path: nothing, ?t=5.
QueryAfter ==
  { <<>>,
    <<"?","t","=","5">> }

\* The url that carries id as the value of its v= parameter.
QueryUrl(path, before, id, after) ==
  HostWww \o path \o <<"?">> \o before \o <<"v", "=">> \o id \o after

\* The url that carries id as a path segment.
PathUrl(host, segments, id, after) == host \o segments \o id \o after

\* The urls of the accepted forms that carry id.
UrlsCarrying(id) ==
  {QueryUrl(p, b, id, a) : p \in QueryPaths, b \in ParamsBefore, a \in ParamsAfter}
    \cup {PathUrl(h, g, id, a) :
             h \in {HostWww, HostShort}, g \in SegmentsBefore, a \in QueryAfter}

UrlForms == UNION {UrlsCarrying(id) : id \in VideoIds}

En == <<"e", "n">>

EnUS == <<"e", "n", "-", "U", "S">>

Fr == <<"f", "r">>

De == <<"d", "e">>

ZhHans == <<"z", "h", "-", "H", "a", "n", "s">>

An == <<"a", "n">>

\* The langCode arguments tried: summarizeVideo passes none, so the default
\* 'en' is the one the plugin ever uses.
LangCodes == {En}

\* The langCode arguments tried where the choice of the track is checked:
\* fetchTranscript(url, langCode) takes any language code.
LangCodesWide == {En, EnUS, An}

\* A caption track of the player response.  baseUrl is a sequence of url
\* parts; Null stands for a track without one.
Track(lang, base) == [languageCode |-> lang, baseUrl |-> base]

AbsUrl(id) == <<"https://", "www.youtube.com", "/api/timedtext", id>>

RelUrl(id) == <<"/api/timedtext", id>>

\* The captionTracks lists the player responses carry.
TrackLists ==
  { <<>>,
    <<Track(En, AbsUrl("en"))>>,
    <<Track(Fr, AbsUrl("fr")), Track(En, RelUrl("en"))>>,
    <<Track(De, Null), Track(Fr, AbsUrl("fr"))>>,
    <<Track(EnUS, RelUrl("en-US")), Track(Fr, AbsUrl("fr"))>> }

\* The caption tracks drawn where the choice of the track is checked, and the
\* non-empty captionTracks lists made of them.
TracksWide ==
  { Track(En, AbsUrl("en")), Track(EnUS, RelUrl("en-US")),
    Track(Fr, AbsUrl("fr")), Track(De, AbsUrl("de")),
    Track(ZhHans, AbsUrl("zh-Hans")) }

TrackListsWide == UNION {[1..n -> TracksWide] : n \in 1..MaxTracks}

\* playabilityStatus.status values of a player response.
NotPlayable == {"LOGIN_REQUIRED", "ERROR", "UNPLAYABLE"}

Txt == <<"T", "&", "a", "m", "p", ";", "A">>

\* A watch page, as far as the code reads it: whether a script holds
\* `var ytInitialPlayerResponse = {` and parses ("found", "missing",
\* "malformed"), the player response's playability status and caption tracks,
\* and the first matches of TITLE_REGEX, AUTHOR_REGEX, CHANNEL_ID_REGEX
\* (Null: no match).
Page(player, status, tracks, meta) ==
  [player |-> player, playability |-> status, tracks |-> tracks,
   title |-> IF meta THEN Txt ELSE Null,
   author |-> IF meta THEN <<"A">> ELSE Null,
   channelId |-> IF meta THEN <<"U", "C", "1">> ELSE Null]

\* No page (videoPageBody before the first response).
NoPage == [player |-> "none"]

Pages ==
  {Page("missing", "OK", <<>>, FALSE), Page("malformed", "OK", <<>>, TRUE)}
    \cup {Page("found", "OK", t, TRUE) : t \in TrackLists}
    \cup {Page("found", "OK", <<Track(En, AbsUrl("en"))>>, FALSE)}
    \cup {Page("found", s, <<>>, TRUE) : s \in NotPlayable}

\* The watch pages answered where the choice of the track is checked.
TrackPages == {Page("found", "OK", t, TRUE) : t \in TrackListsWide}

\* The pieces the titles are made of where decodeHTML is checked: the six
\* entities, the tails amp; #39; lt; of three of them, & and a letter.
TitlePieces ==
  { <<"&", "#", "3", "9", ";">>, <<"&", "a", "m", "p", ";">>,
    <<"&", "q", "u", "o", "t", ";">>, <<"&", "a", "p", "o", "s", ";">>,
    <<"&", "l", "t", ";">>, <<"&", "g", "t", ";">>,
    <<"a", "m", "p", ";">>, <<"#", "3", "9", ";">>, <<"l", "t", ";">>,
    <<"&">>, <<"a">> }

\* The pieces f[1..k] joined.
RECURSIVE Joined(_, _)
Joined(f, k) == IF k = 0 THEN <<>> ELSE Joined(f, k - 1) \o f[k]

\* The TITLE_REGEX matches drawn: one to MaxPieces pieces.
Titles ==
  UNION { {Joined(f, n) : f \in [1..n -> TitlePieces]} : n \in 1..MaxPieces }

\* The watch pages answered where decodeHTML is checked: no caption track,
\* any of the titles.
TitlePages == {[Page("found", "OK", <<>>, TRUE) EXCEPT !.title = t] : t \in Titles}

\* A node of a caption document: a <text start dur> cue, a <p t d> cue
\* (start and dur hold t and d), white space between the elements, or any
\* other markup ("other").
Cue(tag, start, dur, text) ==
  [tag |-> tag, start |-> start, dur |-> dur, text |-> text]

WhiteSpace == Cue("ws", 0, 0, <<" ">>)

\* null where a caption document is expected (captions before any is found).
NoBody == <<Cue("null", 0, 0, <<>>)>>

\* The caption documents the track urls answer with: the empty string, white
\* space only, one cue, two cues out of time order, the <p t d> schema, and
\* a document without any cue (<transcript></transcript>).
Bodies ==
  { <<>>,
    <<WhiteSpace>>,
    <<Cue("text", 0, 2, <<"h", "i">>)>>,
    <<Cue("text", 5, 1, <<"b">>), WhiteSpace,
      Cue("text", 0, 2, <<"a", "&", "a", "m", "p", ";", "b">>)>>,
    <<Cue("p", 0, 2000, <<"h", "i">>)>>,
    <<Cue("other", 0, 0, <<>>)>> }

\* The message of the error a failed request() rejects with.
NetworkError == <<"net::ERR_FAILED">>

(***************************************************************************)
(* The acquisition: YouTubeService                                         *)
(***************************************************************************)

\* The number of attempts of the retry loop: `attempt <= 3`.
MaxAttempts == 3

\* `!captionsXML || captionsXML.trim() === ''`
IsBlank(body) == \A k \in 1..Len(body) : body[k].tag = "ws"

\* parseCaptions: one line per <text> element, in document order.
ParseCaptions(body) ==
  LET cues == SelectSeq(body, LAMBDA e : e.tag = "text")
  IN  [k \in 1..Len(cues) |->
        [text |-> DecodeHTML(cues[k].text),
         duration |-> cues[k].dur * 1000,
         offset |-> cues[k].start * 1000]]

\* `a.languageCode && a.languageCode.includes(langCode)`
MatchesLang(t) ==
  /\ t.languageCode # Null
  /\ Includes(t.languageCode, langCode)

\* The sort of extractCaptions (retrying revision): a stable sort whose
\* comparator puts the tracks matching langCode first.
SortTracks(tracks) ==
  SelectSeq(tracks, MatchesLang) \o SelectSeq(tracks, LAMBDA t : ~MatchesLang(t))

\* The first track after position k that has a baseUrl (0: none): the
\* `if (!track.baseUrl) continue` of the loop over sortedTracks.
NextTrack(tracks, k) ==
  LET next == {j \in (k + 1)..Len(tracks) : tracks[j].baseUrl # Null}
  IN  IF next = {} THEN 0 ELSE CHOOSE j \in next : \A r \in next : j <= r

\* The url the captions are requested from.
CaptionsUrl(baseUrl) ==
  IF StartsWith(baseUrl, <<"https://">>)
  THEN baseUrl
  ELSE <<"https://", "www.youtube.com">> \o baseUrl

\* A request() just issued.
PageRequest(n) ==
  [kind |-> "page", attempt |-> n, target |-> url, status |-> "pending",
   page |-> NoPage, body |-> <<>>]

CaptionRequest(n, baseUrl) ==
  [kind |-> "caption", attempt |-> n, target |-> CaptionsUrl(baseUrl),
   status |-> "pending", page |-> NoPage, body |-> <<>>]

\* The request whose continuation is to run.
LastReq == reqs[Len(reqs)]

PageRequests == Cardinality({k \in 1..Len(reqs) : reqs[k].kind = "page"})

CaptionRequests == Cardinality({k \in 1..Len(reqs) : reqs[k].kind = "caption"})

Pending == {k \in 1..Len(reqs) : reqs[k].status = "pending"}

\* `new Error(`Failed to fetch transcript: ${error.message}`)`
WrapTranscript(msg) == <<"Failed to fetch transcript: ">> \o msg

\* `new Error(`Failed to fetch video metadata: ${error.message}`)`
WrapMetadata(msg) == <<"Failed to fetch video metadata: ">> \o msg

Unknown == <<"U", "n", "k", "n", "o", "w", "n">>

\* `channelId ? `https://www.youtube.com/channel/${channelId}` : ''`
ChannelUrl(channelId) ==
  IF channelId # Null
  THEN <<"https://www.youtube.com/channel/">> \o channelId
  ELSE <<>>

\* No value yet (result before the call resolves).
NoResult == [kind |-> "none"]

\* A mutant of the response: the `|| 'Unknown'` and `: ''` defaults are
\* missing.
TranscriptOfNoDefaults(page, lines) ==
  [kind |-> "transcript",
   url |-> url,
   videoId |-> ExtractVideoId(url),
   title |-> DecodeHTML(page.title),
   author |-> DecodeHTML(page.author),
   channelUrl |-> <<"https://www.youtube.com/channel/">> \o page.channelId,
   lines |-> lines]

\* The TranscriptResponse built from the page and the lines.
TranscriptOf(page, lines) ==
  [kind |-> "transcript",
   url |-> url,
   videoId |-> ExtractVideoId(url),
   title |-> DecodeHTML(IF page.title # Null THEN page.title ELSE Unknown),
   author |-> DecodeHTML(IF page.author # Null THEN page.author ELSE Unknown),
   channelUrl |-> ChannelUrl(page.channelId),
   lines |-> lines]

(***************************************************************************)
(* The stored settings: SettingsManager (settingsManager.ts).  Provider    *)
(* and model names are character sequences, so that the ':' of a model id  *)
(* is searched for, not assumed.                                           *)
(***************************************************************************)

\* Provider names: a built-in one and two a user may type, one holding the
\* separator of the model ids, and the empty text field.
ProvGemini == <<"G">>
ProvOpenAI == <<"O">>
ProvCustom == <<"Q">>
ProvColon == <<"a", ":", "b">>
EmptyName == <<>>

ProviderNames == {ProvGemini, ProvOpenAI, ProvCustom, ProvColon, EmptyName}

\* Model names, and a display name differing from both.
ModelM == <<"m">>
ModelN == <<"n">>
Display == <<"D">>

ModelNames == {ModelM, ModelN}

\* Most providers a settings object holds, most models a provider holds.
MaxProviders == 3
MaxModels == 2

\* A StoredModel and a StoredProvider (part_007).
Model(name, displayName) == [name |-> name, displayName |-> displayName]

Provider(name, type, isBuiltIn, apiKey, models) ==
  [name |-> name, type |-> type, isBuiltIn |-> isBuiltIn, apiKey |-> apiKey,
   models |-> models]

\* makeModelId / buildModelId: `${providerName}:${modelName}`
MakeModelId(providerName, modelName) == providerName \o <<":">> \o modelName

\* parseModelId: split(':'), the first part and the rest joined with ':'
ParseModelId(modelId) ==
  LET colons == {k \in 1..Len(modelId) : modelId[k] = ":"} IN
  IF colons = {}
  THEN [providerName |-> modelId, modelName |-> <<>>]
  ELSE LET c == CHOOSE k \in colons : \A j \in colons : k <= j IN
       [providerName |-> SubSeq(modelId, 1, c - 1),
        modelName |-> SubSeq(modelId, c + 1, Len(modelId))]

\* The settings the constructor starts from: the built-in provider with one
\* model, that model selected.
DefaultSettings ==
  [providers |->
     <<Provider(ProvGemini, "gemini", TRUE, "", <<Model(ModelM, ModelM)>>)>>,
   selectedModelId |-> MakeModelId(ProvGemini, ModelM),
   customPrompt |-> "prompt0",
   maxTokens |-> "tokens0",
   temperature |-> "temp0"]

\* Settings a user has already added a provider and a model to.
TwoProviderSettings ==
  [DefaultSettings EXCEPT
     !.providers = Append(@,
        Provider(ProvOpenAI, "openai", FALSE, "k", <<Model(ModelN, ModelN)>>))]

InitialSettings == {DefaultSettings, TwoProviderSettings}

\* providers.findIndex(p => p.name === name) + 1, 0 when there is none
FindProvider(s, name) ==
  LET hits == {k \in 1..Len(s.providers) : s.providers[k].name = name} IN
  IF hits = {} THEN 0 ELSE CHOOSE k \in hits : \A j \in hits : k <= j

\* models.findIndex(m => m.name === name) + 1, 0 when there is none
FindModel(provider, name) ==
  LET hits == {k \in 1..Len(provider.models) : provider.models[k].name = name}
  IN IF hits = {} THEN 0 ELSE CHOOSE k \in hits : \A j \in hits : k <= j

\* array.splice(k - 1, 1)
Splice(seq, k) == SubSeq(seq, 1, k - 1) \o SubSeq(seq, k + 1, Len(seq))

\* The outcome of a SettingsManager method: the settings it leaves and the
\* message of the error it threw, "none" when it returned.
Outcome(s, error) == [s |-> s, error |-> error]

\* validateProvider without the uniqueness test.
ValidateProviderNoUnique(s, provider, originalName) ==
  /\ provider.name # EmptyName
  /\ provider.type # ""
  /\ ~Includes(provider.name, <<":">>)

\* validateProvider(provider, originalName); originalName Null when omitted
ValidateProvider(s, provider, originalName) ==
  /\ provider.name # EmptyName
  /\ provider.type # ""
  /\ ~Includes(provider.name, <<":">>)
  /\ ~(/\ FindProvider(s, provider.name) # 0
       /\ \/ originalName = Null
          \/ originalName = EmptyName
          \/ provider.name # originalName)

\* validateModel(model, provider): the name is searched for among the
\* provider's models only when it was not found among them.
ValidateModel(model, provider) ==
  /\ model.name # EmptyName
  /\ model.displayName # EmptyName
  /\ \/ FindModel(provider, model.name) # 0
     \/ ~(\E k \in 1..Len(provider.models) :
            provider.models[k].name = model.name)

\* validateModelId(modelId)
ValidateModelId(s, modelId) ==
  LET id == ParseModelId(modelId) IN
  /\ \E k \in 1..Len(s.providers) : s.providers[k].name = id.providerName
  /\ \E k \in 1..Len(s.providers) :
       \E j \in 1..Len(s.providers[k].models) :
         s.providers[k].models[j].name = id.modelName

\* null where a model with its provider is expected.
NoModel == [missing |-> TRUE]

\* findModelAndProvider(modelId), null when either is missing
FindModelAndProvider(s, modelId) ==
  LET id == ParseModelId(modelId)
      p == FindProvider(s, id.providerName) IN
  IF p = 0 THEN NoModel
  ELSE IF FindModel(s.providers[p], id.modelName) = 0 THEN NoModel
  ELSE [provider |-> s.providers[p],
        model |-> s.providers[p].models[FindModel(s.providers[p],
                                                  id.modelName)]]

\* getSelectedModel()
GetSelectedModel(s) ==
  IF s.selectedModelId = Null \/ s.selectedModelId = <<>> THEN NoModel
  ELSE FindModelAndProvider(s, s.selectedModelId)

\* addProvider(provider)
AddProviderOp(s, provider) ==
  LET stored == [provider EXCEPT !.models = <<>>] IN
  IF ~ValidateProvider(s, stored, Null)
  THEN Outcome(s, "Invalid provider configuration")
  ELSE Outcome([s EXCEPT !.providers = Append(@, stored)], "none")

\* updateProvider(provider, originalName)
UpdateProviderOp(s, provider, originalName) ==
  LET k == FindProvider(s, originalName) IN
  IF k = 0 THEN Outcome(s, "Provider not found")
  ELSE LET updated == [provider EXCEPT !.models = s.providers[k].models] IN
       IF ~ValidateProvider(s, updated, originalName)
       THEN Outcome(s, "Invalid provider configuration")
       ELSE Outcome([s EXCEPT !.providers[k] = updated], "none")

\* addModel(model), providerName being model.provider.name
AddModelOp(s, model, providerName) ==
  LET k == FindProvider(s, providerName) IN
  IF k = 0 THEN Outcome(s, "Provider not found")
  ELSE LET stored == Model(model.name,
                           IF model.displayName # EmptyName
                           THEN model.displayName ELSE model.name) IN
       IF ~ValidateModel(stored, s.providers[k])
       THEN Outcome(s, "Invalid model configuration")
       ELSE Outcome([s EXCEPT !.providers[k].models = Append(@, stored)],
                    "none")

\* updateModel(modelName, displayName, providerName)
UpdateModelOp(s, modelName, displayName, providerName) ==
  LET k == FindProvider(s, providerName) IN
  IF k = 0 THEN Outcome(s, "Provider not found")
  ELSE LET j == FindModel(s.providers[k], modelName) IN
       IF j = 0 THEN Outcome(s, "Model not found")
       ELSE LET updated == [s.providers[k].models[j]
                              EXCEPT !.displayName = displayName] IN
            IF ~ValidateModel(updated, s.providers[k])
            THEN Outcome(s, "Invalid model configuration")
            ELSE Outcome([s EXCEPT !.providers[k].models[j] = updated],
                         "none")

\* deleteModel(providerName, modelName): selectedModelId === modelName.
\* The messages thrown also carry the name that was not found.
DeleteModelOp(s, providerName, modelName) ==
  LET k == FindProvider(s, providerName) IN
  IF k = 0 THEN Outcome(s, "Provider not found")
  ELSE LET j == FindModel(s.providers[k], modelName) IN
       IF j = 0 THEN Outcome(s, "Model not found")
       ELSE Outcome(
              [s EXCEPT
                 !.selectedModelId = IF @ = modelName THEN Null ELSE @,
                 !.providers[k].models = Splice(@, j)],
              "none")

\* storedProvider.models.forEach(model => deleteModel(model.name, name)):
\* the loop visits index i of the array deleteModel is splicing.
RECURSIVE DeleteVisited(_, _, _)
DeleteVisited(s, providerName, i) ==
  LET k == FindProvider(s, providerName) IN
  IF i > Len(s.providers[k].models) THEN s
  ELSE DeleteVisited(
         DeleteModelOp(s, providerName, s.providers[k].models[i].name).s,
         providerName, i + 1)

\* deleteProvider(providerName)
DeleteProviderOp(s, providerName) ==
  LET k == FindProvider(s, providerName) IN
  IF k = 0 THEN Outcome(s, "Provider not found")
  ELSE LET emptied == DeleteVisited(s, providerName, 1) IN
       Outcome([emptied EXCEPT !.providers = Splice(@, k)], "none")

\* updateActiveModel(modelId)
UpdateActiveModelOp(s, modelId) ==
  Outcome([s EXCEPT !.selectedModelId = modelId], "none")

\* No SettingsManager method has been called.
NoOp == [op |-> "none", arg |-> Null, error |-> "none", result |-> FALSE]

\* this.provider before any provider was created: null.
NoProvider ==
  [model |-> Null, type |-> "", apiKey |-> "", maxTokens |-> "",
   temperature |-> ""]

\* ProvidersFactory.createProvider(selectedModel, maxTokens, temperature):
\* the provider keeps the values it was constructed with.
CreateProvider(s) ==
  LET selected == GetSelectedModel(s) IN
  [model |-> selected.model.name,
   type |-> selected.provider.type,
   apiKey |-> selected.provider.apiKey,
   maxTokens |-> s.maxTokens,
   temperature |-> s.temperature]

\* Where the settings play no part.
SettingsIdle ==
  /\ managers = <<DefaultSettings>>
  /\ disk = DefaultSettings
  /\ lastOp = NoOp
  /\ providerObj = NoProvider
  /\ promptObj = ""
  /\ selpc = "idle"
  /\ uiOps = 0

(***************************************************************************)
(* The command layer: YouTubeSummarizerPlugin.summarizeVideo               *)
(***************************************************************************)

\* The settings the "providers" revision reads (main.ts 141-159):
\* selectedModel (null or a model), its provider's apiKey, this.provider.
\* The "grok" revision reads llmProvider, geminiApiKey, grokApiKey (408-414).
SettingsOf(m) ==
  IF m = "providers"
  THEN [selectedModel : BOOLEAN, apiKey : BOOLEAN, provider : BOOLEAN,
        llmProvider : {"gemini"}, geminiApiKey : {FALSE}, grokApiKey : {FALSE}]
  ELSE [selectedModel : {FALSE}, apiKey : {FALSE}, provider : {FALSE},
        llmProvider : {"gemini", "grok"}, geminiApiKey : BOOLEAN,
        grokApiKey : BOOLEAN]

\* What the awaited fetchTranscript call can end with, as summarizeVideo
\* sees it: a transcript with lines, a transcript without, or a rejection.
FetchOutcomes == {"lines", "nolines", "thrown"}

\* The early returns inside the try block: the Notice shown, or None when
\* summarizeVideo goes on to fetch.
EarlyReturn ==
  IF mainImpl = "providers"
  THEN IF ~settings.selectedModel THEN "No AI model selected"
       ELSE IF ~settings.apiKey THEN "API key is missing"
       ELSE IF ~settings.provider THEN "AI provider not initialized"
       ELSE None
  ELSE IF settings.llmProvider = "gemini" /\ ~settings.geminiApiKey
         THEN "Gemini API key is missing"
       ELSE IF settings.llmProvider = "grok" /\ ~settings.grokApiKey
         THEN "Grok API key is missing"
       ELSE None

\* A mutant of the guard: the flag is never seen as set.
GuardNeverSet == FALSE

\* The guard of summarizeVideo: `if (this.isProcessing)`.
AlreadyProcessing == isProcessing

\* A mutant of the rejection: it leaves through the finally block, which
\* resets the flag of the invocation in flight.
RejectThroughFinally(i) ==
  /\ svpc[i] = "idle"
  /\ AlreadyProcessing
  /\ svpc' = [svpc EXCEPT ![i] = "rejected"]
  /\ notices' = [notices EXCEPT ![i] = Append(@, "Already processing")]
  /\ isProcessing' = FALSE
  /\ UNCHANGED <<mainImpl, settings, via, fetchCalls, providerCalls,
                 transcript, editor>>
  /\ UNCHANGED fetchVars
  /\ UNCHANGED settingsVars

\* summarizeVideo is called while isProcessing is set: Notice, return.
Reject(i) ==
  /\ svpc[i] = "idle"
  /\ AlreadyProcessing
  /\ svpc' = [svpc EXCEPT ![i] = "rejected"]
  /\ notices' = [notices EXCEPT ![i] = Append(@, "Already processing")]
  /\ UNCHANGED <<mainImpl, settings, isProcessing, via, fetchCalls,
                 providerCalls, transcript, editor>>
  /\ UNCHANGED fetchVars
  /\ UNCHANGED settingsVars

\* summarizeVideo is called while the flag is clear and an early return
\* applies: the flag is set, the Notice shown, and the finally block clears
\* the flag again, all before the first await.
StartEarlyReturn(i) ==
  /\ svpc[i] = "idle"
  /\ ~AlreadyProcessing
  /\ EarlyReturn # None
  /\ svpc' = [svpc EXCEPT ![i] = "done"]
  /\ notices' = [notices EXCEPT ![i] = Append(@, EarlyReturn)]
  /\ isProcessing' = FALSE
  /\ UNCHANGED <<mainImpl, settings, via, fetchCalls, providerCalls,
                 transcript, editor>>
  /\ UNCHANGED fetchVars
  /\ UNCHANGED settingsVars

\* summarizeVideo is called while the flag is clear: the flag is set and
\* fetchTranscript(url) is called and awaited.
StartFetch(i) ==
  /\ svpc[i] = "idle"
  /\ ~AlreadyProcessing
  /\ EarlyReturn = None
  /\ isProcessing' = TRUE
  /\ svpc' = [svpc EXCEPT ![i] = "fetching"]
  /\ notices' = [notices EXCEPT ![i] = Append(@, "Fetching video transcript...")]
  /\ fetchCalls' = [fetchCalls EXCEPT ![i] = @ + 1]
  /\ UNCHANGED <<mainImpl, settings, via, providerCalls, transcript, editor>>
  /\ UNCHANGED fetchVars
  /\ UNCHANGED settingsVars

\* fetchTranscript resolved: the prompt is built from the lines (whatever
\* their number) and the provider is called and awaited.
FetchReturned(i) ==
  /\ svpc[i] = "fetching"
  /\ \E o \in FetchOutcomes \ {"thrown"} :
       transcript' = [transcript EXCEPT ![i] = o]
  /\ svpc' = [svpc EXCEPT ![i] = "summarizing"]
  /\ notices' = [notices EXCEPT ![i] = Append(@, "Generating summary...")]
  /\ providerCalls' = [providerCalls EXCEPT ![i] = @ + 1]
  /\ UNCHANGED <<mainImpl, settings, isProcessing, via, fetchCalls, editor>>
  /\ UNCHANGED fetchVars
  /\ UNCHANGED settingsVars

\* A mutant of the error path: the catch without the finally block.
FetchThrewNoFinally(i) ==
  /\ svpc[i] = "fetching"
  /\ transcript' = [transcript EXCEPT ![i] = "thrown"]
  /\ svpc' = [svpc EXCEPT ![i] = "done"]
  /\ notices' = [notices EXCEPT ![i] = Append(@, "Error")]
  /\ UNCHANGED <<mainImpl, settings, isProcessing, via, fetchCalls,
                 providerCalls, editor>>
  /\ UNCHANGED fetchVars
  /\ UNCHANGED settingsVars

\* fetchTranscript rejected: catch (Notice), finally (flag cleared).
FetchThrew(i) ==
  /\ svpc[i] = "fetching"
  /\ transcript' = [transcript EXCEPT ![i] = "thrown"]
  /\ svpc' = [svpc EXCEPT ![i] = "done"]
  /\ notices' = [notices EXCEPT ![i] = Append(@, "Error")]
  /\ isProcessing' = FALSE
  /\ UNCHANGED <<mainImpl, settings, via, fetchCalls, providerCalls, editor>>
  /\ UNCHANGED fetchVars
  /\ UNCHANGED settingsVars

\* The provider resolved: the summary is inserted, finally clears the flag.
ProviderReturned(i) ==
  /\ svpc[i] = "summarizing"
  /\ editor' = Append(editor, i)
  /\ svpc' = [svpc EXCEPT ![i] = "done"]
  /\ notices' = [notices EXCEPT ![i] = Append(@, "Summary generated successfully!")]
  /\ isProcessing' = FALSE
  /\ UNCHANGED <<mainImpl, settings, via, fetchCalls, providerCalls, transcript>>
  /\ UNCHANGED fetchVars
  /\ UNCHANGED settingsVars

\* A mutant of the catch block: it inserts what it has into the editor.
ProviderThrewWrites(i) ==
  /\ svpc[i] = "summarizing"
  /\ editor' = Append(editor, i)
  /\ svpc' = [svpc EXCEPT ![i] = "done"]
  /\ notices' = [notices EXCEPT ![i] = Append(@, "Error")]
  /\ isProcessing' = FALSE
  /\ UNCHANGED <<mainImpl, settings, via, fetchCalls, providerCalls,
                 transcript>>
  /\ UNCHANGED fetchVars
  /\ UNCHANGED settingsVars

\* The provider rejected: catch (Notice), finally (flag cleared).
ProviderThrew(i) ==
  /\ svpc[i] = "summarizing"
  /\ svpc' = [svpc EXCEPT ![i] = "done"]
  /\ notices' = [notices EXCEPT ![i] = Append(@, "Error")]
  /\ isProcessing' = FALSE
  /\ UNCHANGED <<mainImpl, settings, via, fetchCalls, providerCalls,
                 transcript, editor>>
  /\ UNCHANGED fetchVars
  /\ UNCHANGED settingsVars

\* The acquisition variables while the command layer is what is modelled.
FetchIdle ==
  /\ impl = "retry"
  /\ op = "fetchTranscript"
  /\ url = <<>>
  /\ langCode = <<>>
  /\ fpc = "unused"
  /\ attempt = 0
  /\ videoPageBody = NoPage
  /\ sortedTracks = <<>>
  /\ trackIdx = 0
  /\ captions = NoBody
  /\ lastError = Null
  /\ reqs = <<>>
  /\ result = NoResult
  /\ thrown = Null

Init ==
  /\ mainImpl \in {"providers", "grok"}
  /\ settings \in SettingsOf(mainImpl)
  /\ isProcessing = FALSE
  /\ svpc = [i \in Invocations |-> "idle"]
  /\ via \in [Invocations -> {"command", "modal"}]
  /\ fetchCalls = [i \in Invocations |-> 0]
  /\ providerCalls = [i \in Invocations |-> 0]
  /\ transcript = [i \in Invocations |-> None]
  /\ notices = [i \in Invocations |-> <<>>]
  /\ editor = <<>>
  /\ FetchIdle
  /\ SettingsIdle

Next ==
  \E i \in Invocations :
    \/ Reject(i)
    \/ StartEarlyReturn(i)
    \/ StartFetch(i)
    \/ FetchReturned(i)
    \/ FetchThrew(i)
    \/ ProviderReturned(i)
    \/ ProviderThrew(i)

Spec == Init /\ [][Next]_vars

\* The awaited calls complete: an invocation waiting for fetchTranscript or
\* for the provider is resumed, by the value or by the error.
\* Every invocation comes from the command: summarizeVideo is the same code
\* whichever caller awaits it.
InitFair ==
  /\ Init
  /\ via = [i \in Invocations |-> "command"]

SpecFair ==
  /\ InitFair
  /\ [][Next]_vars
  /\ \A i \in Invocations :
       /\ WF_vars(FetchReturned(i) \/ FetchThrew(i))
       /\ WF_vars(ProviderReturned(i) \/ ProviderThrew(i))

(***************************************************************************)
(* The acquisition as a state machine.  Each action is one run of the code *)
(* between two awaits; the network answers in between (NetResolve*,        *)
(* NetReject).                                                             *)
(***************************************************************************)

\* The command-layer variables while the acquisition is what is modelled.
PluginIdle ==
  /\ mainImpl = "providers"
  /\ settings = [selectedModel |-> TRUE, apiKey |-> TRUE, provider |-> TRUE,
                 llmProvider |-> "gemini", geminiApiKey |-> FALSE,
                 grokApiKey |-> FALSE]
  /\ isProcessing = FALSE
  /\ svpc = [i \in Invocations |-> "idle"]
  /\ via = [i \in Invocations |-> "command"]
  /\ fetchCalls = [i \in Invocations |-> 0]
  /\ providerCalls = [i \in Invocations |-> 0]
  /\ transcript = [i \in Invocations |-> None]
  /\ notices = [i \in Invocations |-> <<>>]
  /\ editor = <<>>

\* fetchVideoMetadata exists in the single-fetch revision only.
OpsOf(v) ==
  IF v = "single" THEN {"fetchTranscript", "fetchVideoMetadata"}
  ELSE {"fetchTranscript"}

\* A call of op(url, langCode) about to run, its arguments drawn from the
\* given sets.
InitCall(urls, langs) ==
  /\ PluginIdle
  /\ SettingsIdle
  /\ impl \in {"retry", "single"}
  /\ op \in OpsOf(impl)
  /\ url \in urls
  /\ langCode \in langs
  /\ fpc = "called"
  /\ attempt = 0
  /\ videoPageBody = NoPage
  /\ sortedTracks = <<>>
  /\ trackIdx = 0
  /\ captions = NoBody
  /\ lastError = Null
  /\ reqs = <<>>
  /\ result = NoResult
  /\ thrown = Null

InitFetch == InitCall(Urls, LangCodes)

\* The call rejects: the outer catch wraps the message.
Throw(msg) ==
  /\ fpc' = "thrown"
  /\ thrown' = (IF op = "fetchTranscript" THEN WrapTranscript(msg)
                ELSE WrapMetadata(msg))
  /\ result' = result

\* The call resolves.
Return(value) ==
  /\ fpc' = "returned"
  /\ result' = value
  /\ thrown' = thrown

\* A mutant of the id check: the url is requested whatever it holds.
InvalidUrlNeverSeen == FALSE

\* `if (!videoId) throw new Error('Invalid YouTube URL')`
InvalidUrl == ExtractVideoId(url) = Null

\* fetchTranscript is called with a url that holds no video id (both
\* revisions), or fetchVideoMetadata is.
CallInvalidUrl ==
  /\ fpc = "called"
  /\ InvalidUrl
  /\ Throw(<<"Invalid YouTube URL">>)
  /\ UNCHANGED <<impl, op, url, langCode, attempt, videoPageBody,
                 sortedTracks, trackIdx, captions, lastError, reqs>>
  /\ UNCHANGED pluginVars
  /\ UNCHANGED settingsVars

\* The call with a url that holds an id: the watch page is requested (the
\* first attempt of the retry loop, or the one fetch).
CallRequestPage ==
  /\ fpc = "called"
  /\ ~InvalidUrl
  /\ attempt' = 1
  /\ reqs' = Append(reqs, PageRequest(1))
  /\ fpc' = "awaitPage"
  /\ UNCHANGED <<impl, op, url, langCode, videoPageBody, sortedTracks,
                 trackIdx, captions, lastError, result, thrown>>
  /\ UNCHANGED pluginVars
  /\ UNCHANGED settingsVars

\* The network answers the pending watch-page request with one of pages.
NetResolvePageFrom(pages) ==
  /\ Len(reqs) > 0
  /\ LastReq.status = "pending"
  /\ LastReq.kind = "page"
  /\ \E p \in pages :
       reqs' = [reqs EXCEPT ![Len(reqs)] = [@ EXCEPT !.status = "ok", !.page = p]]
  /\ UNCHANGED <<impl, op, url, langCode, fpc, attempt, videoPageBody,
                 sortedTracks, trackIdx, captions, lastError, result, thrown>>
  /\ UNCHANGED pluginVars
  /\ UNCHANGED settingsVars

NetResolvePage == NetResolvePageFrom(Pages)

\* The network answers the pending caption request.
NetResolveCaption ==
  /\ Len(reqs) > 0
  /\ LastReq.status = "pending"
  /\ LastReq.kind = "caption"
  /\ \E b \in Bodies :
       reqs' = [reqs EXCEPT ![Len(reqs)] = [@ EXCEPT !.status = "ok", !.body = b]]
  /\ UNCHANGED <<impl, op, url, langCode, fpc, attempt, videoPageBody,
                 sortedTracks, trackIdx, captions, lastError, result, thrown>>
  /\ UNCHANGED pluginVars
  /\ UNCHANGED settingsVars

\* The pending request fails (request() rejects).
NetReject ==
  /\ Len(reqs) > 0
  /\ LastReq.status = "pending"
  /\ reqs' = [reqs EXCEPT ![Len(reqs)] = [@ EXCEPT !.status = "fail"]]
  /\ UNCHANGED <<impl, op, url, langCode, fpc, attempt, videoPageBody,
                 sortedTracks, trackIdx, captions, lastError, result, thrown>>
  /\ UNCHANGED pluginVars
  /\ UNCHANGED settingsVars

\* A mutant of the awaits: a caption request is not awaited, the code after
\* it runs while the request is still outstanding.
SettledOrCaption == LastReq.status # "pending" \/ LastReq.kind = "caption"

\* `await request(...)`: the code after a request runs once the request has
\* completed or failed.
Settled == LastReq.status # "pending"

\* A mutant of the retry loop: the bound is off by one.
MoreAttemptsOffByOne == attempt <= MaxAttempts

\* The loop condition `attempt <= 3` after `attempt++`.
MoreAttempts == attempt + 1 <= MaxAttempts

\* The catch of the retry loop (lines 94-97) and what follows it: the next
\* attempt requests the page afresh, or, after the last one, line 100 throws.
RetryOrGiveUp(msg) ==
  /\ lastError' = msg
  /\ captions' = NoBody
  /\ IF MoreAttempts
     THEN /\ attempt' = attempt + 1
          /\ reqs' = Append(reqs, PageRequest(attempt + 1))
          /\ fpc' = "awaitPage"
          /\ UNCHANGED <<result, thrown>>
     ELSE /\ Throw(<<"No captions available after 3 attempts. Last error: ">> \o msg)
          /\ UNCHANGED <<attempt, reqs>>

\* Retrying revision, the page request is settled: extractCaptions runs up
\* to its first caption request, or throws into the loop's catch.
RetryOnPage ==
  /\ impl = "retry"
  /\ fpc = "awaitPage"
  /\ Settled
  /\ IF LastReq.status = "fail"
     THEN /\ RetryOrGiveUp(NetworkError)
          /\ UNCHANGED <<videoPageBody, sortedTracks, trackIdx>>
     ELSE LET page == LastReq.page
              sorted == SortTracks(page.tracks)
              first == NextTrack(sorted, 0)
          IN  /\ videoPageBody' = page
              /\ IF page.player = "missing"
                 THEN /\ RetryOrGiveUp(<<"Failed to find player data">>)
                      /\ UNCHANGED <<sortedTracks, trackIdx>>
                 ELSE IF page.player = "malformed"
                 THEN /\ RetryOrGiveUp(<<"SyntaxError">>)
                      /\ UNCHANGED <<sortedTracks, trackIdx>>
                 ELSE IF Len(page.tracks) = 0
                 THEN /\ RetryOrGiveUp(<<"No captions available">>)
                      /\ UNCHANGED <<sortedTracks, trackIdx>>
                 ELSE IF first = 0
                 THEN /\ sortedTracks' = sorted
                      /\ trackIdx' = Len(sorted) + 1
                      /\ RetryOrGiveUp(
                           <<"Failed to fetch captions from any available track">>)
                 ELSE /\ sortedTracks' = sorted
                      /\ trackIdx' = first
                      /\ reqs' = Append(reqs,
                                   CaptionRequest(attempt, sorted[first].baseUrl))
                      /\ fpc' = "awaitCaption"
                      /\ UNCHANGED <<attempt, captions, lastError, result, thrown>>
  /\ UNCHANGED <<impl, op, url, langCode>>
  /\ UNCHANGED pluginVars
  /\ UNCHANGED settingsVars

\* A mutant of the body check: every body is skipped, usable or not.
SkipBodyAlways(body) == TRUE

\* extractCaptions, `if (!captionsXML || captionsXML.trim() === '') continue`
SkipBody(body) == IsBlank(body)

\* A mutant of the check after the loop: an error recorded by an earlier
\* attempt makes the call give up although captions were found.
NoCaptionsOrEarlierError(c) == c = NoBody \/ c = <<>> \/ lastError # Null

\* `if (!captions)` after the retry loop (line 100).
NoCaptions(c) == c = NoBody \/ c = <<>>

\* Retrying revision, a caption request is settled: a failure or a blank
\* body moves on to the next track; a non-blank body is what extractCaptions
\* returns, the loop breaks and the transcript is built and returned.
RetryOnCaption ==
  /\ impl = "retry"
  /\ fpc = "awaitCaption"
  /\ Settled
  /\ IF LastReq.status = "ok" /\ ~SkipBody(LastReq.body)
     THEN IF ~IsBlank(LastReq.body)
          THEN /\ captions' = LastReq.body
               /\ IF NoCaptions(LastReq.body)
                  THEN Throw(<<"No captions available after 3 attempts. Last error: ">>
                               \o lastError)
                  ELSE Return(TranscriptOf(videoPageBody, ParseCaptions(LastReq.body)))
               /\ UNCHANGED <<attempt, trackIdx, lastError, reqs>>
          ELSE /\ RetryOrGiveUp(<<"Empty captions received">>)
               /\ UNCHANGED trackIdx
     ELSE LET next == NextTrack(sortedTracks, trackIdx)
          IN  IF next = 0
              THEN /\ trackIdx' = Len(sortedTracks) + 1
                   /\ RetryOrGiveUp(
                        <<"Failed to fetch captions from any available track">>)
              ELSE /\ trackIdx' = next
                   /\ reqs' = Append(reqs,
                                CaptionRequest(attempt, sortedTracks[next].baseUrl))
                   /\ UNCHANGED <<fpc, attempt, captions, lastError, result, thrown>>
  /\ UNCHANGED <<impl, op, url, langCode, videoPageBody, sortedTracks>>
  /\ UNCHANGED pluginVars
  /\ UNCHANGED settingsVars

\* Single-fetch revision: the track extractCaptions picks,
\* `captionTracks.find(t => t.languageCode.includes(langCode)) || captionTracks[0]`
\* (0: no track; -1: the search throws on a track without languageCode).
FindTrack(tracks) ==
  LET hits == {j \in 1..Len(tracks) :
                 /\ tracks[j].languageCode # Null
                 /\ Includes(tracks[j].languageCode, langCode)}
      nolang == {j \in 1..Len(tracks) : tracks[j].languageCode = Null}
      hit == IF hits = {} THEN Len(tracks) + 1
             ELSE CHOOSE j \in hits : \A r \in hits : j <= r
  IN  IF Len(langCode) = 0 THEN (IF Len(tracks) = 0 THEN 0 ELSE 1)
      ELSE IF \E j \in nolang : j < hit THEN -1
      ELSE IF hits # {} THEN hit
      ELSE IF Len(tracks) = 0 THEN 0 ELSE 1

\* Single-fetch revision, fetchTranscript, the page request is settled: a
\* failure rejects the call; otherwise extractCaptions runs up to its one
\* caption request, and anything it throws yields a transcript without lines.
SingleOnPage ==
  /\ impl = "single"
  /\ op = "fetchTranscript"
  /\ fpc = "awaitPage"
  /\ Settled
  /\ IF LastReq.status = "fail"
     THEN /\ Throw(NetworkError)
          /\ UNCHANGED <<videoPageBody, sortedTracks, trackIdx, reqs>>
     ELSE LET page == LastReq.page
              pick == IF page.player = "found" THEN FindTrack(page.tracks) ELSE 0
          IN  /\ videoPageBody' = page
              /\ IF pick <= 0 \/ page.tracks[pick].baseUrl = Null
                 THEN /\ Return(TranscriptOf(page, <<>>))
                      /\ UNCHANGED <<sortedTracks, trackIdx, reqs>>
                 ELSE /\ sortedTracks' = page.tracks
                      /\ trackIdx' = pick
                      /\ reqs' = Append(reqs,
                                   CaptionRequest(attempt, page.tracks[pick].baseUrl))
                      /\ fpc' = "awaitCaption"
                      /\ UNCHANGED <<result, thrown>>
  /\ UNCHANGED <<impl, op, url, langCode, attempt, captions, lastError>>
  /\ UNCHANGED pluginVars
  /\ UNCHANGED settingsVars

\* Single-fetch revision, the caption request is settled: the body, whatever
\* it holds, is parsed; a failure yields a transcript without lines.
SingleOnCaption ==
  /\ impl = "single"
  /\ fpc = "awaitCaption"
  /\ Settled
  /\ IF LastReq.status = "fail"
     THEN /\ Return(TranscriptOf(videoPageBody, <<>>))
          /\ UNCHANGED captions
     ELSE /\ captions' = LastReq.body
          /\ Return(TranscriptOf(videoPageBody, ParseCaptions(LastReq.body)))
  /\ UNCHANGED <<impl, op, url, langCode, attempt, videoPageBody,
                 sortedTracks, trackIdx, lastError, reqs>>
  /\ UNCHANGED pluginVars
  /\ UNCHANGED settingsVars

\* The VideoMetadata built from the page.
MetadataOf(page) ==
  [kind |-> "metadata",
   title |-> DecodeHTML(IF page.title # Null THEN page.title ELSE Unknown),
   author |-> DecodeHTML(IF page.author # Null THEN page.author ELSE Unknown),
   channelUrl |-> ChannelUrl(page.channelId),
   videoId |-> ExtractVideoId(url),
   url |-> url]

\* fetchVideoMetadata, the page request is settled.
MetadataOnPage ==
  /\ impl = "single"
  /\ op = "fetchVideoMetadata"
  /\ fpc = "awaitPage"
  /\ Settled
  /\ IF LastReq.status = "fail"
     THEN /\ Throw(NetworkError)
          /\ UNCHANGED videoPageBody
     ELSE /\ videoPageBody' = LastReq.page
          /\ IF LastReq.page.player = "missing"
             THEN Throw(<<"Failed to find player data">>)
             ELSE IF LastReq.page.player = "malformed"
             THEN Throw(<<"SyntaxError">>)
             ELSE Return(MetadataOf(LastReq.page))
  /\ UNCHANGED <<impl, op, url, langCode, attempt, sortedTracks, trackIdx,
                 captions, lastError, reqs>>
  /\ UNCHANGED pluginVars
  /\ UNCHANGED settingsVars

NextFetch ==
  \/ CallInvalidUrl
  \/ CallRequestPage
  \/ NetResolvePage
  \/ NetResolveCaption
  \/ NetReject
  \/ RetryOnPage
  \/ RetryOnCaption
  \/ SingleOnPage
  \/ SingleOnCaption
  \/ MetadataOnPage

SpecFetch == InitFetch /\ [][NextFetch]_vars

\* The calls checked for termination: one url of each kind (what follows the
\* id check does not read the url again).
InitFetchFair ==
  /\ InitFetch
  /\ url \in {UrlWatch, UrlNoId}

\* Every issued request completes and every continuation runs.
SpecFetchFair == InitFetchFair /\ [][NextFetch]_vars /\ WF_vars(NextFetch)

FetchDone == fpc \in {"returned", "thrown"}

(***************************************************************************)
(* The extraction of the video id: calls with any of the urls, up to the   *)
(* id check.                                                               *)
(***************************************************************************)

InitUrl == InitCall(Urls \cup UrlForms, LangCodes)

NextUrl ==
  \/ CallInvalidUrl
  \/ CallRequestPage

SpecUrl == InitUrl /\ [][NextUrl]_vars

(***************************************************************************)
(* The decoding of the title: calls of the single-fetch revision answered  *)
(* with any of TitlePages.                                                 *)
(***************************************************************************)

InitDecode ==
  /\ InitCall({UrlWatch}, LangCodes)
  /\ impl = "single"

NetResolveTitlePage == NetResolvePageFrom(TitlePages)

NextDecode ==
  \/ CallRequestPage
  \/ NetResolveTitlePage
  \/ SingleOnPage
  \/ MetadataOnPage

SpecDecode == InitDecode /\ [][NextDecode]_vars

(***************************************************************************)
(* The choice of the caption track: fetchTranscript calls with any of      *)
(* LangCodesWide, answered with any of TrackPages, up to the first caption *)
(* request.                                                                *)
(***************************************************************************)

InitTracks ==
  /\ InitCall({UrlWatch}, LangCodesWide)
  /\ op = "fetchTranscript"

NetResolveTrackPage == NetResolvePageFrom(TrackPages)

NextTracks ==
  \/ CallRequestPage
  \/ NetResolveTrackPage
  \/ RetryOnPage
  \/ SingleOnPage

SpecTracks == InitTracks /\ [][NextTracks]_vars

(***************************************************************************)
(* Calls of the SettingsManager's methods on plugin.settings.  A method    *)
(* that returns has called saveData; a method that throws has not.         *)
(***************************************************************************)

\* plugin.settings: the SettingsManager initializeServices created last.
Cur == managers[Len(managers)]

\* The names a caller passes for a provider that may exist.
KnownNames == {ProvGemini, ProvOpenAI, ProvCustom}

\* The StoredProvider objects a caller passes to addProvider/updateProvider.
ProviderArgs ==
  {Provider(n, t, FALSE, "", <<>>) : n \in ProviderNames, t \in {"openai", ""}}

\* The ids a caller passes: "Provider:Model" ids, and a bare model name.
ModelIds ==
  {MakeModelId(p, m) : p \in KnownNames, m \in ModelNames} \cup {ModelM}

\* The method `opName` ran on plugin.settings and ended as `outcome`.
Commit(opName, arg, outcome) ==
  /\ managers' = [managers EXCEPT ![Len(managers)] = outcome.s]
  /\ disk' = IF outcome.error = "none" THEN outcome.s ELSE disk
  /\ lastOp' = [op |-> opName, arg |-> arg, error |-> outcome.error,
                result |-> FALSE]

AddProvider ==
  \E p \in ProviderArgs :
    /\ Len(Cur.providers) < MaxProviders
    /\ Commit("addProvider", p.name, AddProviderOp(Cur, p))
    /\ UNCHANGED pluginVars
    /\ UNCHANGED fetchVars
    /\ UNCHANGED serviceVars

UpdateProvider ==
  \E p \in ProviderArgs, originalName \in KnownNames :
    /\ Commit("updateProvider", originalName,
              UpdateProviderOp(Cur, p, originalName))
    /\ UNCHANGED pluginVars
    /\ UNCHANGED fetchVars
    /\ UNCHANGED serviceVars

DeleteProvider ==
  \E name \in KnownNames :
    /\ Commit("deleteProvider", name, DeleteProviderOp(Cur, name))
    /\ UNCHANGED pluginVars
    /\ UNCHANGED fetchVars
    /\ UNCHANGED serviceVars

AddModel ==
  \E providerName \in KnownNames, name \in ModelNames \cup {EmptyName},
     displayName \in {EmptyName, Display} :
    /\ LET k == FindProvider(Cur, providerName) IN
       k # 0 => Len(Cur.providers[k].models) < MaxModels
    /\ Commit("addModel", MakeModelId(providerName, name),
              AddModelOp(Cur, Model(name, displayName), providerName))
    /\ UNCHANGED pluginVars
    /\ UNCHANGED fetchVars
    /\ UNCHANGED serviceVars

UpdateModel ==
  \E providerName \in KnownNames, name \in ModelNames,
     displayName \in {EmptyName, Display} :
    /\ Commit("updateModel", MakeModelId(providerName, name),
              UpdateModelOp(Cur, name, displayName, providerName))
    /\ UNCHANGED pluginVars
    /\ UNCHANGED fetchVars
    /\ UNCHANGED serviceVars

DeleteModel ==
  \E providerName \in KnownNames, name \in ModelNames :
    /\ Commit("deleteModel", MakeModelId(providerName, name),
              DeleteModelOp(Cur, providerName, name))
    /\ UNCHANGED pluginVars
    /\ UNCHANGED fetchVars
    /\ UNCHANGED serviceVars

UpdateActiveModel ==
  \E modelId \in ModelIds :
    /\ Commit("updateActiveModel", modelId,
              UpdateActiveModelOp(Cur, modelId))
    /\ UNCHANGED pluginVars
    /\ UNCHANGED fetchVars
    /\ UNCHANGED serviceVars

\* A call of validateModelId: it changes nothing and answers.
CheckModelId ==
  \E modelId \in ModelIds :
    /\ lastOp' = [op |-> "validateModelId", arg |-> modelId,
                  error |-> "none", result |-> ValidateModelId(Cur, modelId)]
    /\ UNCHANGED <<managers, disk>>
    /\ UNCHANGED pluginVars
    /\ UNCHANGED fetchVars
    /\ UNCHANGED serviceVars

\* One SettingsManager, constructed and loaded, nothing else going on.
InitManager ==
  /\ PluginIdle
  /\ FetchIdle
  /\ \E s \in InitialSettings :
       /\ managers = <<s>>
       /\ disk = s
  /\ lastOp = NoOp
  /\ providerObj = NoProvider
  /\ promptObj = ""
  /\ selpc = "idle"
  /\ uiOps = 0

NextProviders == AddProvider \/ UpdateProvider \/ DeleteProvider

SpecProviders == InitManager /\ [][NextProviders]_vars

NextModels ==
  AddModel \/ UpdateModel \/ DeleteModel \/ UpdateActiveModel \/ CheckModelId

SpecModels == InitManager /\ [][NextModels]_vars

(***************************************************************************)
(* The settings tab: SettingsTab, SettingsEventHandlers and the modals.    *)
(* The tab reads and writes the SettingsManager its constructor captured;  *)
(* the handlers read and write plugin.settings.                            *)
(***************************************************************************)

\* The number of operations made in the settings tab.
MaxUIOps == 4

\* SettingsTab.settings: `this.settings = plugin.settings` in the constructor
Tab == managers[1]

\* loadSettings, new format: each field of the data file, or the
\* constructor's default where the file holds null (??).
LoadSettings(loaded) ==
  [loaded EXCEPT
     !.selectedModelId =
        IF @ = Null THEN DefaultSettings.selectedModelId ELSE @]

\* What summarizeVideo's early returns read: getSelectedModel(), the api key
\* of its provider, this.provider.
SettingsView(s, provider) ==
  [selectedModel |-> GetSelectedModel(s) # NoModel,
   apiKey |-> /\ GetSelectedModel(s) # NoModel
              /\ GetSelectedModel(s).provider.apiKey # "",
   provider |-> provider # NoProvider,
   llmProvider |-> "gemini", geminiApiKey |-> FALSE, grokApiKey |-> FALSE]

\* The values typed into the text fields of the summary section.
Prompts == {"prompt0", "prompt1"}
TokenValues == {"tokens0", "tokens1"}
Temperatures == {"temp0", "temp1"}
ApiKeys == {"", "k", "k2"}

\* updateCustomPrompt, updateMaxTokens, updateTemperature, saveProviderKey
UpdateCustomPromptOp(s, prompt) ==
  Outcome([s EXCEPT !.customPrompt = prompt], "none")

UpdateMaxTokensOp(s, tokens) ==
  Outcome([s EXCEPT !.maxTokens = tokens], "none")

UpdateTemperatureOp(s, temperature) ==
  Outcome([s EXCEPT !.temperature = temperature], "none")

SaveProviderKeyOp(s, providerName, key) ==
  LET k == FindProvider(s, providerName) IN
  IF k = 0 THEN Outcome(s, "Provider not found")
  ELSE Outcome([s EXCEPT !.providers[k].apiKey = key], "none")

\* The providers and the models the tab displays: those of its manager.
Displayed == {Tab.providers[k] : k \in 1..Len(Tab.providers)}

DisplayedModels ==
  UNION {{[provider |-> p.name, name |-> p.models[j].name] :
            j \in 1..Len(p.models)} : p \in Displayed}

\* The option values of the model dropdown: the ids buildModelId makes, or,
\* once updateModelDropdown has rebuilt the options, the bare model names.
DropdownValues ==
  {MakeModelId(m.provider, m.name) : m \in DisplayedModels}
    \cup {m.name : m \in DisplayedModels}

\* An operation of the tab: the method ran on manager k and ended as outcome.
UIStep(opName, arg, k, outcome) ==
  /\ uiOps < MaxUIOps
  /\ uiOps' = uiOps + 1
  /\ managers' = [managers EXCEPT ![k] = outcome.s]
  /\ disk' = IF outcome.error = "none" THEN outcome.s ELSE disk
  /\ lastOp' = [op |-> opName, arg |-> arg, error |-> outcome.error,
                result |-> FALSE]
  /\ settings' = SettingsView(managers'[Len(managers)], providerObj)
  /\ UNCHANGED <<providerObj, promptObj, selpc>>
  /\ UNCHANGED <<mainImpl, isProcessing, svpc, via, fetchCalls, providerCalls,
                 transcript, notices, editor>>
  /\ UNCHANGED fetchVars

\* AddProviderModal, Save: handleProviderAdd
HandleProviderAdd ==
  \E name \in ProviderNames :
    /\ Len(Cur.providers) < MaxProviders
    /\ UIStep("addProvider", name, Len(managers),
              AddProviderOp(Cur, Provider(name, "openai", FALSE, "k", <<>>)))

\* EditProviderModal, Save: handleProviderEdit; the edit button is shown
\* for the providers that are not built in.
HandleProviderEdit ==
  \E p \in Displayed, name \in ProviderNames :
    /\ ~p.isBuiltIn
    /\ UIStep("updateProvider", p.name, Len(managers),
              UpdateProviderOp(Cur, [p EXCEPT !.name = name], p.name))

\* handleProviderDeleteClick, then DeleteProviderModal, Delete
HandleProviderDelete ==
  \E p \in Displayed :
    /\ ~p.isBuiltIn
    /\ ~(/\ GetSelectedModel(Cur) # NoModel
         /\ GetSelectedModel(Cur).provider.name = p.name)
    /\ UIStep("deleteProvider", p.name, Len(managers),
              DeleteProviderOp(Cur, p.name))

\* AddModelModal, Save: handleModelAdd
HandleModelAdd ==
  \E p \in Displayed, name \in ModelNames \cup {EmptyName} :
    /\ LET k == FindProvider(Cur, p.name) IN
       k # 0 => Len(Cur.providers[k].models) < MaxModels
    /\ UIStep("addModel", MakeModelId(p.name, name), Len(managers),
              AddModelOp(Cur, Model(name, EmptyName), p.name))

\* EditModelModal, Save: handleModelEdit
HandleModelEdit ==
  \E m \in DisplayedModels :
    /\ UIStep("updateModel", MakeModelId(m.provider, m.name), Len(managers),
              UpdateModelOp(Cur, m.name, Display, m.provider))
    /\ lastOp'.op = "updateModel"

\* DeleteModelModal, Delete: handleModelDelete
HandleModelDelete ==
  \E m \in DisplayedModels :
    /\ UIStep("deleteModel", MakeModelId(m.provider, m.name), Len(managers),
              DeleteModelOp(Cur, m.provider, m.name))
    /\ lastOp'.op = "deleteModel"

\* The api key field of a provider: handleApiKeyChange
HandleApiKeyChange ==
  \E p \in Displayed, key \in ApiKeys :
    /\ key # p.apiKey
    /\ UIStep("saveProviderKey", p.name, Len(managers),
              SaveProviderKeyOp(Cur, p.name, key))

\* The fields of the summary section: they call the tab's manager.
TabUpdateCustomPrompt ==
  \E prompt \in Prompts :
    /\ prompt # Tab.customPrompt
    /\ UIStep("updateCustomPrompt", Null, 1,
              UpdateCustomPromptOp(Tab, prompt))

TabUpdateMaxTokens ==
  \E tokens \in TokenValues :
    /\ tokens # Tab.maxTokens
    /\ UIStep("updateMaxTokens", Null, 1, UpdateMaxTokensOp(Tab, tokens))

TabUpdateTemperature ==
  \E temperature \in Temperatures :
    /\ temperature # Tab.temperature
    /\ UIStep("updateTemperature", Null, 1,
              UpdateTemperatureOp(Tab, temperature))

\* handleModelSelection up to `await updateActiveModel(value)`: an id the
\* manager finds invalid is logged and dropped.
HandleModelSelection ==
  \E value \in DropdownValues :
    /\ selpc = "idle"
    /\ uiOps < MaxUIOps
    /\ uiOps' = uiOps + 1
    /\ IF ValidateModelId(Cur, value)
       THEN /\ managers' = [managers EXCEPT ![Len(managers)] =
                              UpdateActiveModelOp(Cur, value).s]
            /\ disk' = UpdateActiveModelOp(Cur, value).s
            /\ selpc' = "saving"
            /\ lastOp' = [op |-> "updateActiveModel", arg |-> value,
                          error |-> "none", result |-> FALSE]
       ELSE /\ lastOp' = [op |-> "validateModelId", arg |-> value,
                          error |-> "none", result |-> FALSE]
            /\ UNCHANGED <<managers, disk, selpc>>
    /\ settings' = SettingsView(managers'[Len(managers)], providerObj)
    /\ UNCHANGED <<providerObj, promptObj>>
    /\ UNCHANGED <<mainImpl, isProcessing, svpc, via, fetchCalls,
                   providerCalls, transcript, notices, editor>>
    /\ UNCHANGED fetchVars

\* initializeServices up to `await this.settings.loadSettings()`:
\* plugin.settings is a new SettingsManager, holding the defaults.
InitializeServices ==
  /\ selpc = "saving"
  /\ managers' = Append(managers, DefaultSettings)
  /\ selpc' = "loading"
  /\ settings' = SettingsView(DefaultSettings, providerObj)
  /\ UNCHANGED <<disk, lastOp, providerObj, promptObj, uiOps>>
  /\ UNCHANGED <<mainImpl, isProcessing, svpc, via, fetchCalls, providerCalls,
                 transcript, notices, editor>>
  /\ UNCHANGED fetchVars

\* loadData resolved: the new manager takes what the data file holds, the
\* prompt service is rebuilt and, if a model is selected, the provider.
ServicesLoaded ==
  /\ selpc = "loading"
  /\ LET loaded == LoadSettings(disk)
         provider == IF GetSelectedModel(loaded) # NoModel
                     THEN CreateProvider(loaded) ELSE providerObj
     IN  /\ managers' = [managers EXCEPT ![Len(managers)] = loaded]
         /\ promptObj' = loaded.customPrompt
         /\ providerObj' = provider
         /\ settings' = SettingsView(loaded, provider)
  /\ selpc' = "idle"
  /\ UNCHANGED <<disk, lastOp, uiOps>>
  /\ UNCHANGED <<mainImpl, isProcessing, svpc, via, fetchCalls, providerCalls,
                 transcript, notices, editor>>
  /\ UNCHANGED fetchVars

\* After onload: initializeServices has run once and the tab was created.
InitUI ==
  /\ \E s \in InitialSettings :
       /\ managers = <<s>>
       /\ disk = s
       /\ promptObj = s.customPrompt
       /\ providerObj = IF GetSelectedModel(s) # NoModel
                        THEN CreateProvider(s) ELSE NoProvider
       /\ settings = SettingsView(s, providerObj)
  /\ lastOp = NoOp
  /\ selpc = "idle"
  /\ uiOps = 0
  /\ mainImpl = "providers"
  /\ isProcessing = FALSE
  /\ svpc = [i \in Invocations |-> "idle"]
  /\ via = [i \in Invocations |-> "command"]
  /\ fetchCalls = [i \in Invocations |-> 0]
  /\ providerCalls = [i \in Invocations |-> 0]
  /\ transcript = [i \in Invocations |-> None]
  /\ notices = [i \in Invocations |-> <<>>]
  /\ editor = <<>>
  /\ FetchIdle

NextUI ==
  \/ HandleProviderAdd
  \/ HandleProviderEdit
  \/ HandleProviderDelete
  \/ HandleModelAdd
  \/ HandleModelEdit
  \/ HandleModelDelete
  \/ HandleApiKeyChange
  \/ TabUpdateCustomPrompt
  \/ TabUpdateMaxTokens
  \/ TabUpdateTemperature
  \/ HandleModelSelection
  \/ InitializeServices
  \/ ServicesLoaded

SpecUI == InitUI /\ [][NextUI]_vars

\* The operations that change what a summary is made with, and one
\* summarizeVideo invocation.
NextUse ==
  \/ HandleApiKeyChange
  \/ TabUpdateCustomPrompt
  \/ TabUpdateMaxTokens
  \/ TabUpdateTemperature
  \/ HandleModelSelection
  \/ InitializeServices
  \/ ServicesLoaded
  \/ StartEarlyReturn(1)
  \/ StartFetch(1)
  \/ FetchReturned(1)
  \/ FetchThrew(1)
  \/ ProviderReturned(1)
  \/ ProviderThrew(1)

SpecUse == InitUI /\ [][NextUse]_vars

(***************************************************************************)
(* Properties of the command layer (checked under Spec)                    *)
(***************************************************************************)

\* The invocations between `this.isProcessing = true` and the finally block
\* that are suspended at an await.
InFlight == {i \in Invocations : svpc[i] \in {"fetching", "summarizing"}}

\* C1: on one plugin instance, whatever the interleaving of summarizeVideo
\* invocations (from a command or from the modal's callback), at most one of
\* them is between setting isProcessing and its finally block, so at most
\* one fetchTranscript / provider pipeline is in flight.
C1_SingleFlight == Cardinality(InFlight) <= 1

\* One invocation is fetching while another, made meanwhile, was rejected.
C1_Witness ==
  \E i, j \in Invocations :
    /\ svpc[i] = "fetching"
    /\ svpc[j] = "rejected"
    /\ via[i] = "command"
    /\ via[j] = "modal"

\* C2: an invocation that starts while isProcessing is set is rejected at
\* once and not queued: it calls neither fetchTranscript nor the provider,
\* writes nothing to the editor, leaves isProcessing as it was, and stays
\* rejected whatever happens later.
C2_RejectedNotQueued ==
  [][\A i \in Invocations :
       /\ (svpc[i] = "idle" /\ isProcessing /\ svpc'[i] # "idle") =>
            /\ svpc'[i] = "rejected"
            /\ isProcessing' = isProcessing
            /\ fetchCalls'[i] = 0
            /\ providerCalls'[i] = 0
            /\ editor' = editor
       /\ svpc[i] = "rejected" =>
            /\ svpc'[i] = "rejected"
            /\ fetchCalls'[i] = 0
            /\ providerCalls'[i] = 0
            /\ \A k \in 1..Len(editor') : editor'[k] # i]_vars

\* An invocation was rejected, the one then in flight has finished and
\* written its summary, and the rejected one has still not run.
C2_Witness ==
  \E i, j \in Invocations :
    /\ svpc[i] = "rejected"
    /\ svpc[j] = "done"
    /\ editor = <<j>>
    /\ ~isProcessing
    /\ fetchCalls[i] = 0

\* C19: when fetchTranscript yields no lines, summarizeVideo tells the user
\* that captions are not available and does not call the provider with a
\* prompt built from the empty transcript.
C19_NoCaptionsNoTranscriptPrompt ==
  \A i \in Invocations :
    transcript[i] = "nolines" =>
      /\ providerCalls[i] = 0
      /\ \E k \in 1..Len(notices[i]) : notices[i][k] = "Captions not available"

(***************************************************************************)
(* Properties of the acquisition (checked under SpecFetch, and under       *)
(* SpecFetchFair where termination is claimed)                             *)
(***************************************************************************)

\* The url holds a video id (a "valid URL").
ValidUrl == ExtractVideoId(url) # Null

\* Every watch-page request made so far was answered with a playable page
\* whose player response lists no caption track.
OnlyTracklessPages ==
  /\ Len(reqs) > 0
  /\ \A k \in 1..Len(reqs) :
       /\ reqs[k].kind = "page"
       /\ reqs[k].status # "fail"
       /\ reqs[k].status = "ok" =>
            /\ reqs[k].page.player = "found"
            /\ reqs[k].page.playability = "OK"
            /\ reqs[k].page.tracks = <<>>

\* C3: in either revision, for a valid url whose page fetch succeeds and
\* whose player response lists zero caption tracks, fetchTranscript does not
\* throw and returns a Transcript whose lines are empty.
C3_NoTracksGivesEmptyTranscript ==
  (op = "fetchTranscript" /\ ValidUrl /\ OnlyTracklessPages) =>
    /\ fpc # "thrown"
    /\ fpc = "returned" => result.lines = <<>>

\* C4: in the retrying revision, when every attempt of the budget ends
\* without usable captions, the call ends with a Transcript whose lines are
\* empty and raises no error.
C4_ExhaustedBudgetGivesNoCaptions ==
  (impl = "retry" /\ ValidUrl /\ FetchDone /\ captions = NoBody) =>
    /\ fpc = "returned"
    /\ result.lines = <<>>

\* C5: one call requests the watch page at most 3 times, whatever the
\* network answers, and it terminates (returns or throws) once every request
\* it issued has completed.
C5_BoundedRetries == [](PageRequests <= 3) /\ <>FetchDone

\* The whole budget was used: three page requests, and the call has ended.
C5_Witness == PageRequests = 3 /\ FetchDone /\ CaptionRequests > 0

\* The caption requests answered with a non-blank body.
UsableAnswers ==
  {k \in 1..Len(reqs) :
     /\ reqs[k].kind = "caption"
     /\ reqs[k].status = "ok"
     /\ ~IsBlank(reqs[k].body)}

\* C6: as soon as an attempt has produced non-blank captions the call moves
\* to Success: the continuation that receives them returns and issues no
\* further page or caption request, nothing is requested afterwards, and at
\* most one attempt of a call is successful.
C6_NoAttemptAfterSuccess ==
  /\ [](Cardinality(UsableAnswers) <= 1)
  /\ [][UsableAnswers # {} => (fpc' = "returned" /\ reqs' = reqs)]_vars

\* Captions were found by the second track tried in the second attempt.
C6_Witness ==
  /\ impl = "retry"
  /\ fpc = "returned"
  /\ UsableAnswers # {}
  /\ attempt = 2
  /\ trackIdx = 2
  /\ Len(sortedTracks) = 2

\* C7 as stated: for a url without an 11-character id, fetchTranscript and
\* fetchVideoMetadata issue no request, make no attempt, and the caller
\* receives the invalid-URL error itself.
C7_InvalidUrlSurfacedAsIs ==
  ~ValidUrl =>
    /\ Len(reqs) = 0
    /\ attempt = 0
    /\ FetchDone => (fpc = "thrown" /\ thrown = <<"Invalid YouTube URL">>)

\* C7 as amended: for a url without an 11-character id, fetchTranscript and
\* fetchVideoMetadata issue no request and make no attempt, and the caller
\* receives a new error whose message is the invalid-URL message behind the
\* method's prefix.
C7_InvalidUrlSurfacedWrapped ==
  ~ValidUrl =>
    /\ Len(reqs) = 0
    /\ attempt = 0
    /\ fpc \in {"called", "thrown"}
    /\ fpc = "thrown" =>
         thrown = (IF op = "fetchTranscript"
                   THEN <<"Failed to fetch transcript: ", "Invalid YouTube URL">>
                   ELSE <<"Failed to fetch video metadata: ", "Invalid YouTube URL">>)

\* fetchVideoMetadata has rejected a url that holds no id.
C7_Witness ==
  /\ ~ValidUrl
  /\ op = "fetchVideoMetadata"
  /\ fpc = "thrown"

\* C8: when the fetched player response reports a non-playable status,
\* fetchTranscript fails at once: after exactly one page fetch, with no
\* retry and no caption request.
C8_UnplayableFailsAtOnce ==
  (/\ op = "fetchTranscript"
   /\ videoPageBody.player = "found"
   /\ videoPageBody.playability \in NotPlayable) =>
    /\ fpc = "thrown"
    /\ PageRequests = 1
    /\ CaptionRequests = 0

\* C9: if a caption request of the first attempt is answered with an empty
\* (blank) body and one of the second attempt with a non-blank body, the
\* call succeeds on the retry: no error reaches the caller and what is
\* returned is the transcript parsed from that second body.
C9_SucceedsOnRetry ==
  \A j, k \in 1..Len(reqs) :
    (/\ reqs[j].kind = "caption" /\ reqs[j].attempt = 1
     /\ reqs[j].status = "ok" /\ IsBlank(reqs[j].body)
     /\ reqs[k].kind = "caption" /\ reqs[k].attempt = 2
     /\ reqs[k].status = "ok" /\ ~IsBlank(reqs[k].body)) =>
      /\ fpc \in {"awaitCaption", "returned"}
      /\ thrown = Null
      /\ k = Len(reqs)
      /\ fpc = "returned" =>
           /\ result.kind = "transcript"
           /\ result.lines = ParseCaptions(reqs[k].body)

\* The first attempt got an empty body, the second a body with cues, and
\* the call has returned its lines.
C9_Witness ==
  /\ fpc = "returned"
  /\ attempt = 2
  /\ \E j \in 1..Len(reqs) :
       /\ reqs[j].kind = "caption" /\ reqs[j].attempt = 1
       /\ reqs[j].status = "ok" /\ reqs[j].body = <<>>
  /\ Len(result.lines) = 2

\* C10: a network failure of the page request or of a caption request is
\* transient: it reaches the caller only after the whole retry budget (three
\* page requests) is used up.
C10_NetworkFailureAfterBudgetOnly ==
  (/\ op = "fetchTranscript"
   /\ fpc = "thrown"
   /\ \E k \in 1..Len(reqs) : reqs[k].status = "fail") =>
    PageRequests = 3

\* C11: within one call the requests are strictly sequential: at every
\* moment at most one request (watch page or caption track) is outstanding,
\* it is the one issued last, and a request is issued only when every
\* earlier one has completed or failed.
C11_SequentialRequests ==
  /\ [](Cardinality(Pending) <= 1 /\ \A k \in Pending : k = Len(reqs))
  /\ [][Len(reqs') > Len(reqs) =>
          (Pending = {} /\ Len(reqs') = Len(reqs) + 1)]_vars

\* The page was fetched, the first track's request failed, and the second
\* track's request is outstanding.
C11_Witness ==
  /\ Len(reqs) = 3
  /\ reqs[1].kind = "page" /\ reqs[1].status = "ok"
  /\ reqs[2].kind = "caption" /\ reqs[2].status = "fail"
  /\ reqs[3].kind = "caption" /\ reqs[3].status = "pending"

\* The caption request answered last with a non-blank body.
GotCaptions ==
  /\ Len(reqs) > 0
  /\ LastReq.kind = "caption"
  /\ LastReq.status = "ok"
  /\ ~IsBlank(LastReq.body)

\* C16: a caption payload that is fetched successfully and is not blank but
\* yields no transcript line when parsed is the Empty outcome of its
\* attempt: fetchTranscript never returns on it as on a successful transcript.
C16_ZeroLinesNotReturned ==
  (GotCaptions /\ Len(ParseCaptions(LastReq.body)) = 0) => fpc # "returned"

\* C17: missing metadata never aborts a successful transcript fetch: once
\* captions were fetched successfully fetchTranscript returns the transcript
\* parsed from them, with title and author "Unknown" where the page has no
\* match for them and channelUrl the empty string where it has no channel id.
C17_MissingMetadataDefaults ==
  (op = "fetchTranscript" /\ GotCaptions /\ FetchDone) =>
    /\ fpc = "returned"
    /\ result.kind = "transcript"
    /\ result.lines = ParseCaptions(LastReq.body)
    /\ videoPageBody.title = Null => result.title = Unknown
    /\ videoPageBody.author = Null => result.author = Unknown
    /\ videoPageBody.channelId = Null => result.channelUrl = <<>>

\* A transcript with lines was returned from a page that has no title, no
\* author and no channel id.
C17_Witness ==
  /\ fpc = "returned"
  /\ GotCaptions
  /\ videoPageBody.title = Null
  /\ videoPageBody.author = Null
  /\ videoPageBody.channelId = Null
  /\ Len(result.lines) > 0
  /\ result.title = Unknown
  /\ result.channelUrl = <<>>

\* C18: in every Transcript returned the lines are ordered by offset,
\* whatever order the cue elements have in the caption payload.
C18_LinesOrderedByOffset ==
  (fpc = "returned" /\ result.kind = "transcript") =>
    \A i \in 1..(Len(result.lines) - 1) :
      result.lines[i].offset <= result.lines[i + 1].offset

\* C20: for a caption payload in the <p t d> schema the transcript returned
\* has one line per cue, with offset equal to t and duration equal to d.
C20_NewSchemaParsed ==
  (/\ fpc = "returned"
   /\ result.kind = "transcript"
   /\ GotCaptions
   /\ \A k \in 1..Len(LastReq.body) : LastReq.body[k].tag \in {"p", "ws"}) =>
    LET cues == SelectSeq(LastReq.body, LAMBDA e : e.tag = "p")
    IN  /\ Len(result.lines) = Len(cues)
        /\ \A k \in 1..Len(cues) :
             /\ result.lines[k].offset = cues[k].start
             /\ result.lines[k].duration = cues[k].dur

(***************************************************************************)
(* Properties of the choice of the caption track (checked under SpecTracks)*)
(***************************************************************************)

\* The track whose captions are requested first.
Selected == sortedTracks[trackIdx]

\* The captionTracks list of the player response, in its order.
Offered == videoPageBody.tracks

\* The three matches of the specification's resolver.
ExactMatch(t) == t.languageCode = langCode

PrefixMatch(t) == StartsWith(t.languageCode, langCode \o <<"-">>)

ReversePrefixMatch(t) == StartsWith(langCode, t.languageCode \o <<"-">>)

\* C12: whenever the track list holds a track whose languageCode equals the
\* requested language, that track is the one selected (tried first),
\* wherever it stands in the list and whatever tracks precede it.
C12_ExactMatchSelectedFirst ==
  (/\ fpc = "awaitCaption"
   /\ \E j \in 1..Len(Offered) : ExactMatch(Offered[j])) =>
    ExactMatch(Selected)

\* C13: when no track of a non-empty list matches the requested language by
\* exact, prefix or reverse-prefix match, the track selected is the first of
\* the list; when none matches exactly and one matches by prefix, a
\* prefix-matching track is selected.
C13_FallbackToFirstTrack ==
  fpc = "awaitCaption" =>
    /\ (\A j \in 1..Len(Offered) :
          /\ ~ExactMatch(Offered[j])
          /\ ~PrefixMatch(Offered[j])
          /\ ~ReversePrefixMatch(Offered[j])) =>
         (trackIdx = 1 /\ Selected = Offered[1])
    /\ (/\ \A j \in 1..Len(Offered) : ~ExactMatch(Offered[j])
        /\ \E j \in 1..Len(Offered) : PrefixMatch(Offered[j])) =>
         PrefixMatch(Selected)

(***************************************************************************)
(* Properties of the extraction of the video id (checked under SpecUrl)    *)
(***************************************************************************)

\* C14: for every url of an accepted form that carries an 11-character id,
\* as the value of a v= parameter or as a path segment, the call passes the
\* id check and the id extracted with VIDEO_ID_REGEX (first match, group 1)
\* is that id, whatever path segments or query parameters precede it.
C14_ExtractsCarriedId ==
  \A id \in VideoIds :
    (fpc # "called" /\ url \in UrlsCarrying(id)) =>
      /\ fpc = "awaitPage"
      /\ ExtractVideoId(url) = id

(***************************************************************************)
(* Properties of decodeHTML (checked under SpecDecode)                     *)
(***************************************************************************)

\* C15 as stated: decoding is idempotent: for every title x of the page,
\* the title returned, decodeHTML(x), is left as it is by decodeHTML.
C15_DecodeIdempotent ==
  fpc = "returned" => DecodeHTML(result.title) = result.title

\* C15 as amended: for every title x in which no &amp; is directly followed
\* by amp; or by #39;, the title returned, decodeHTML(x), is left as it is
\* by decodeHTML.
C15_DecodeIdempotentUnlessAmpBeforeEntity ==
  (/\ fpc = "returned"
   /\ ~Includes(videoPageBody.title, <<"&", "a", "m", "p", ";", "a", "m", "p", ";">>)
   /\ ~Includes(videoPageBody.title, <<"&", "a", "m", "p", ";", "#", "3", "9", ";">>)) =>
    DecodeHTML(result.title) = result.title

\* The title &amp;lt; was returned as < : the & that the second replacement
\* wrote was read again by the fifth.
C15_Witness ==
  /\ fpc = "returned"
  /\ videoPageBody.title = <<"&", "a", "m", "p", ";", "l", "t", ";">>
  /\ result.title = <<"<">>

(***************************************************************************)
(* Properties of the SettingsManager's provider and model operations       *)
(* (checked under SpecProviders and SpecModels)                            *)
(***************************************************************************)

\* The provider names of s are pairwise distinct and none holds a ':'.
NamesOk(s) ==
  /\ \A i, j \in 1..Len(s.providers) :
       i # j => s.providers[i].name # s.providers[j].name
  /\ \A i \in 1..Len(s.providers) : ~Includes(s.providers[i].name, <<":">>)

\* The last call was an addProvider or an updateProvider that threw.
RejectedProviderCall ==
  /\ lastOp.op \in {"addProvider", "updateProvider"}
  /\ lastOp.error # "none"

\* C23 (as stated): after any addProvider, updateProvider and deleteProvider
\* calls the provider names are pairwise distinct and colon-free, and a
\* rejected add or update throws 'Invalid provider configuration' and leaves
\* the provider list unchanged.
C23_RejectedThrowsInvalid ==
  /\ [](/\ NamesOk(Cur)
        /\ RejectedProviderCall =>
             lastOp.error = "Invalid provider configuration")
  /\ [][lastOp'.error # "none" => Cur'.providers = Cur.providers]_vars

\* C23 (amended): the provider names stay pairwise distinct and colon-free;
\* a rejected add throws 'Invalid provider configuration', a rejected update
\* throws it too unless its originalName names no provider, when it throws
\* 'Provider not found'; a rejected call leaves the provider list unchanged.
C23_NamesUniqueRejectedUnchanged ==
  /\ [](/\ NamesOk(Cur)
        /\ RejectedProviderCall =>
             \/ lastOp.error = "Invalid provider configuration"
             \/ /\ lastOp.op = "updateProvider"
                /\ lastOp.error = "Provider not found"
                /\ FindProvider(Cur, lastOp.arg) = 0)
  /\ [][lastOp'.error # "none" => Cur'.providers = Cur.providers]_vars

\* C23 witness: an update was rejected by validateProvider in settings that
\* hold several providers, one of them added or renamed by a call.
C23_Witness ==
  /\ lastOp.op = "updateProvider"
  /\ lastOp.error = "Invalid provider configuration"
  /\ Len(Cur.providers) >= 2
  /\ FindProvider(Cur, ProvCustom) # 0

\* Provider `providerName` of s exists and holds a model named `modelName`.
HoldsModel(s, providerName, modelName) ==
  LET k == FindProvider(s, providerName) IN
  /\ k # 0
  /\ FindModel(s.providers[k], modelName) # 0

\* C21: validateModelId(id) returns true exactly when id has the form
\* ProviderName:ModelName, a provider of that name exists and that provider
\* holds a model of that name.
C21_ValidIffProviderHoldsModel ==
  lastOp.op = "validateModelId" =>
    (lastOp.result <=>
       /\ Includes(lastOp.arg, <<":">>)
       /\ HoldsModel(Cur, ParseModelId(lastOp.arg).providerName,
                     ParseModelId(lastOp.arg).modelName))

\* No provider of s holds two models of the same name.
ModelNamesUnique(s) ==
  \A k \in 1..Len(s.providers) :
    \A i, j \in 1..Len(s.providers[k].models) :
      i # j => s.providers[k].models[i].name # s.providers[k].models[j].name

\* C22: after any addModel, updateModel and deleteModel calls from settings
\* without duplicates, no provider holds two models with the same name.
C22_ModelNamesStayUnique == ModelNamesUnique(Cur)

\* C24: a deleteModel(providerName, modelName) that returns, called while
\* selectedModelId designates that provider and model, leaves
\* selectedModelId null.
C24_DeletingSelectedResetsSelection ==
  [][(/\ lastOp'.op = "deleteModel"
      /\ lastOp'.error = "none"
      /\ Cur.selectedModelId = lastOp'.arg)
     => Cur'.selectedModelId = Null]_vars

(***************************************************************************)
(* Properties of the track loop of extractCaptions (checked under          *)
(* SpecFetch)                                                              *)
(***************************************************************************)

\* The caption requests of the current page attempt, in the order issued.
AttemptCaptionReqs ==
  SelectSeq(reqs, LAMBDA r : r.kind = "caption" /\ r.attempt = attempt)

\* The tracks of the page that have a baseUrl, in the sorted order.
UsableTracks ==
  SelectSeq(SortTracks(videoPageBody.tracks), LAMBDA t : t.baseUrl # Null)

\* The request was answered with a body that is not blank.
Yielded(r) == r.status = "ok" /\ ~IsBlank(r.body)

\* The caption requests of the attempt go to the tracks that have a baseUrl,
\* one request per track, in the sorted order, and each but the last failed
\* or was answered with a blank body.
TriedInSortedOrder ==
  LET tried == AttemptCaptionReqs IN
  tried # <<>> =>
    /\ Len(tried) <= Len(UsableTracks)
    /\ \A i \in 1..Len(tried) :
         tried[i].target = CaptionsUrl(UsableTracks[i].baseUrl)
    /\ \A i \in 1..(Len(tried) - 1) :
         tried[i].status # "pending" /\ ~Yielded(tried[i])

\* What is returned is parsed from the body of the request answered last.
FirstYieldReturned ==
  /\ AttemptCaptionReqs # <<>>
  /\ Yielded(LastReq)
  /\ LastReq = AttemptCaptionReqs[Len(AttemptCaptionReqs)]
  /\ result.lines = ParseCaptions(LastReq.body)

\* The step leaves the track loop without returning.
LoopFails == fpc = "awaitCaption" /\ fpc' \notin {"awaitCaption", "returned"}

\* Every track that has a baseUrl was requested and none yielded.
NoTrackYielded ==
  /\ Len(AttemptCaptionReqs) = Len(UsableTracks)
  /\ \A i \in 1..Len(AttemptCaptionReqs) : ~Yielded(AttemptCaptionReqs[i])

\* The track loop of the retrying revision, without what is made of the
\* body it returns.
TrackLoopFollowed ==
  /\ []((impl = "retry" /\ op = "fetchTranscript") =>
          /\ TriedInSortedOrder
          /\ fpc = "returned" => FirstYieldReturned)
  /\ [][(impl = "retry" /\ LoopFails) => NoTrackYielded]_vars

\* C25: within one page attempt extractCaptions requests the tracks that
\* have a baseUrl one after another in the sorted order, each at most once,
\* and returns the body of the first that answers with a non-blank body, so
\* that the transcript returned is populated; the attempt fails only if no
\* track yields a non-blank body.
C25_FirstYieldingTrackPopulatesTranscript ==
  /\ []((impl = "retry" /\ op = "fetchTranscript") =>
          /\ TriedInSortedOrder
          /\ fpc = "returned" =>
               (FirstYieldReturned /\ Len(result.lines) > 0))
  /\ [][(impl = "retry" /\ LoopFails) => NoTrackYielded]_vars

(***************************************************************************)
(* Release of the guard and writes to the editor (checked under SpecFair   *)
(* and Spec)                                                               *)
(***************************************************************************)

\* C26: every invocation that set isProcessing sets it back to false,
\* however it ends, provided the awaited calls complete; the flag is set
\* only while an invocation is in flight, so a request is rejected only
\* while one is.
C26_GuardAlwaysReleased ==
  /\ \A i \in Invocations :
       (i \in InFlight) ~> (svpc[i] = "done" /\ ~isProcessing)
  /\ [](isProcessing => InFlight # {})
  /\ [][\A i \in Invocations :
         (svpc[i] = "idle" /\ svpc'[i] = "rejected") => InFlight # {}]_vars

\* C26 witness: an invocation ended by the error fetchTranscript threw, the
\* flag was cleared, and a later invocation was accepted and is in flight.
C26_Witness ==
  \E i, j \in Invocations :
    /\ svpc[i] = "done"
    /\ transcript[i] = "thrown"
    /\ svpc[j] = "fetching"
    /\ isProcessing

\* The Notice invocation i showed last.
LastNotice(i) == notices[i][Len(notices[i])]

\* C27: summarizeVideo writes to the editor at most once per invocation and
\* only after fetchTranscript and the provider's call have both completed
\* successfully; a rejected request, an early return and an error leave the
\* editor unchanged, and the invocation ends by returning after its Notice.
C27_EditorWrittenOnceOnSuccessOnly ==
  /\ [](/\ \A k, l \in 1..Len(editor) : editor[k] = editor[l] => k = l
        /\ \A k \in 1..Len(editor) :
             /\ svpc[editor[k]] = "done"
             /\ transcript[editor[k]] \in FetchOutcomes \ {"thrown"}
             /\ fetchCalls[editor[k]] = 1
             /\ providerCalls[editor[k]] = 1
             /\ LastNotice(editor[k]) = "Summary generated successfully!"
        /\ \A i \in Invocations :
             (/\ svpc[i] \in {"done", "rejected"}
              /\ \A k \in 1..Len(editor) : editor[k] # i)
               => LastNotice(i) # "Summary generated successfully!")
  /\ [][editor' # editor =>
          \E i \in Invocations :
            /\ svpc[i] = "summarizing"
            /\ svpc'[i] = "done"
            /\ editor' = Append(editor, i)]_vars

\* C27 witness: one invocation inserted its summary; another, whose
\* provider call threw, and a rejected one left the editor as it was.
C27_Witness ==
  \E i, j, r \in Invocations :
    /\ editor = <<i>>
    /\ svpc[j] = "done"
    /\ providerCalls[j] = 1
    /\ LastNotice(j) = "Error"
    /\ svpc[r] = "rejected"

(***************************************************************************)
(* Properties of the settings tab (checked under SpecUI and SpecUse)       *)
(***************************************************************************)

\* selectedModelId of s is null, or an id "Provider:Model" whose provider
\* is in s and holds the model.
SelectionExists(s) ==
  \/ s.selectedModelId = Null
  \/ /\ Includes(s.selectedModelId, <<":">>)
     /\ HoldsModel(s, ParseModelId(s.selectedModelId).providerName,
                   ParseModelId(s.selectedModelId).modelName)

\* C28: after any operations of the settings tab (add, edit, rename and
\* delete of providers and models, model selection) selectedModelId is null
\* or designates a provider and a model that are both in the settings.
C28_SelectionAlwaysExists == SelectionExists(Cur)

\* What this.provider would be if it were created from s now.
ProviderFor(s) ==
  IF GetSelectedModel(s) = NoModel THEN NoProvider ELSE CreateProvider(s)

\* C29: at the moment summarizeVideo calls the provider, the provider object
\* and the prompt service are the ones built from the model, api key, custom
\* prompt, max tokens and temperature the settings hold at that moment.
C29_SummaryUsesCurrentSettings ==
  [][\A i \in Invocations :
       providerCalls'[i] # providerCalls[i] =>
         /\ providerObj = ProviderFor(Cur)
         /\ promptObj = Cur.customPrompt]_vars

\* C30: whenever no model selection is under way, the settings persisted
\* last equal the settings of the plugin's current SettingsManager, and so
\* hold every change made so far.
C30_PersistedEqualsCurrent == selpc = "idle" => disk = Cur

====
